---- MODULE Spec2Model ----
(***************************************************************************)
(* Queue record projection and reconciliation of bsgui: the queue monitor  *)
(* widget (ui/queue_monitor.py), its drag-and-drop controller              *)
(* (ui/queue_controls.py), the record helpers (core/queue_item_utils.py)   *)
(* and the polling controller (core/qserver_controller.py).                *)
(*                                                                         *)
(* Python values are modelled as tagged records: a scalar is [t, s] with s *)
(* the text str() gives, a dict is [t |-> "dict", d |-> <<[k, v], ...>>]   *)
(* in insertion order, a list is [t |-> "list", l |-> <<...>>].            *)
(***************************************************************************)
EXTENDS Integers, Sequences, FiniteSets, TLC

(***************************************************************************)
(* Python values                                                           *)
(***************************************************************************)
NoneV == [t |-> "none", s |-> "None"]
Str(s) == [t |-> "str", s |-> s]
IntV(s) == [t |-> "int", s |-> s]
FloatV(s) == [t |-> "float", s |-> s]
BoolV(s) == [t |-> "bool", s |-> s]
Dict(pairs) == [t |-> "dict", d |-> pairs]
List(elems) == [t |-> "list", l |-> elems]
KV(k, v) == [k |-> k, v |-> v]

IsDict(v) == v.t = "dict"
IsList(v) == v.t = "list"
IsNone(v) == v.t = "none"

\* Python truthiness, as used by `a or b` and `if value:`.
Truthy(v) ==
    CASE v.t = "none" -> FALSE
      [] v.t = "str" -> v.s # ""
      [] v.t = "int" -> v.s # "0"
      [] v.t = "float" -> v.s # "0.0"
      [] v.t = "bool" -> v.s = "True"
      [] v.t = "dict" -> v.d # <<>>
      [] v.t = "list" -> v.l # <<>>

Or(a, b) == IF Truthy(a) THEN a ELSE b

\* dict operations; a dict keeps its keys in insertion order.
KeysOf(m) == [i \in 1..Len(m.d) |-> m.d[i].k]
Has(m, k) == IsDict(m) /\ k \in {m.d[i].k : i \in 1..Len(m.d)}
IndexOfKey(m, k) == CHOOSE i \in 1..Len(m.d) : m.d[i].k = k
\* m.get(k): None when the key is missing.
Get(m, k) == IF Has(m, k) THEN m.d[IndexOfKey(m, k)].v ELSE NoneV
\* m[k] = v: an existing key keeps its position, a new key is appended.
Put(m, k, v) ==
    IF Has(m, k)
    THEN Dict([m.d EXCEPT ![IndexOfKey(m, k)] = KV(k, v)])
    ELSE Dict(Append(m.d, KV(k, v)))
\* m.pop(k, None)
Pop(m, k) ==
    IF Has(m, k)
    THEN LET i == IndexOfKey(m, k)
         IN Dict(SubSeq(m.d, 1, i - 1) \o SubSeq(m.d, i + 1, Len(m.d)))
    ELSE m
\* m.setdefault(k, v)
SetDefault(m, k, v) == IF Has(m, k) THEN m ELSE Put(m, k, v)
EmptyDict == Dict(<<>>)

\* Sequence helpers.
SeqToSet(s) == {s[i] : i \in 1..Len(s)}
Max2(a, b) == IF a >= b THEN a ELSE b
Min2(a, b) == IF a <= b THEN a ELSE b

(***************************************************************************)
(* Text conversions.  Texts are drawn from a finite set; each conversion   *)
(* is tabulated on it the way Python computes it.                          *)
(***************************************************************************)
\* str.strip() on the texts of the model.
Strip(text) == IF text = " " THEN "" ELSE text
\* str.lower() on the texts of the model.
Lower(text) ==
    CASE text = "True" -> "true"
      [] text = "False" -> "false"
      [] text = "Float" -> "float"
      [] OTHER -> text
\* float(text) succeeds on these texts; the value is str(float(text)).
FloatRepr ==
    [x \in {"0", "1", "3", "7", "12", "1.5", "2.5", "3.0", "7.0", "12.0"} |->
        CASE x = "0" -> "0.0"
          [] x = "1" -> "1.0"
          [] x = "3" -> "3.0"
          [] x = "7" -> "7.0"
          [] x = "12" -> "12.0"
          [] OTHER -> x]

\* The outcome of a call that may raise ValueError.
Ok(v) == [ok |-> TRUE, v |-> v]
ValueError == [ok |-> FALSE, v |-> NoneV]

\* PlanParameter(name, default, type_name)
PlanParameter(name, default, type_name) ==
    [name |-> name, default |-> default, type_name |-> type_name]

\* An inference that would not look at the default.
InferredFromTypeName(p) == IF p.type_name # "" THEN p.type_name ELSE "str"

inferred_type(p) ==
    IF p.type_name # "" THEN p.type_name
    ELSE IF p.default.t = "bool" THEN "bool"
    ELSE IF p.default.t = "int" THEN "int"
    ELSE IF p.default.t = "float" THEN "float"
    ELSE "str"

coerce(p, text) ==
    LET type_name == Lower(inferred_type(p))
        stripped == Strip(text)
    IN  IF stripped = "" THEN Ok(NoneV)
        ELSE IF stripped = "None" THEN Ok(NoneV)
        ELSE IF type_name = "str" THEN Ok(Str(text))
        ELSE IF type_name = "int"
             THEN \* int(stripped) succeeds on these texts of the model
                  IF stripped \in {"0", "1", "3", "7", "12"} THEN Ok(IntV(stripped)) ELSE ValueError
        ELSE IF type_name = "float"
             THEN IF stripped \in DOMAIN FloatRepr
                  THEN Ok(FloatV(FloatRepr[stripped])) ELSE ValueError
        ELSE IF type_name = "bool"
             THEN IF Lower(stripped) \in {"true", "1", "yes", "y", "on"} THEN Ok(BoolV("True"))
                  ELSE IF Lower(stripped) \in {"false", "0", "no", "n", "off"} THEN Ok(BoolV("False"))
                  ELSE ValueError
        ELSE Ok(Str(text))

\* plan_definitions: a sequence of [name, parameters]; .get(plan_name)
PlanNamed(plan_definitions, plan_name) ==
    {plan_definitions[i] : i \in {j \in 1..Len(plan_definitions) :
                                      plan_definitions[j].name = plan_name}}

coerce_for_key(plan_definitions, plan_name, key, text_value) ==
    LET defs == PlanNamed(plan_definitions, plan_name)
    IN  IF defs = {} THEN Ok(Str(text_value))
        ELSE LET definition == CHOOSE d \in defs : TRUE
                 hits == {i \in 1..Len(definition.parameters) :
                             definition.parameters[i].name = key}
             IN  IF hits = {} THEN Ok(Str(text_value))
                 ELSE coerce(definition.parameters[CHOOSE i \in hits :
                                 \A j \in hits : i <= j], text_value)

format_scalar(value) == IF IsNone(value) THEN "" ELSE value.s


RECURSIVE JoinTexts(_, _)
JoinTexts(texts, sep) ==
    IF texts = <<>> THEN ""
    ELSE IF Len(texts) = 1 THEN texts[1]
    ELSE texts[1] \o sep \o JoinTexts(Tail(texts), sep)

\* str(entry) of a scalar entry.
StrOf(value) == value.s
format_sequence(value) == JoinTexts([i \in 1..Len(value.l) |-> StrOf(value.l[i])], ", ")
\* ", ".join(f"{key}={format_scalar(val)}" for key, val in mapping.items())
FormatMapping(m) ==
    JoinTexts([i \in 1..Len(m.d) |-> m.d[i].k \o "=" \o format_scalar(m.d[i].v)], ", ")

(***************************************************************************)
(* core/queue_item_utils.py                                                *)
(***************************************************************************)
\* deepcopy(item): an equal value that shares nothing with the original.
clone_item(item) == IF IsDict(item) THEN item ELSE Dict(<<KV("name", Str(StrOf(item)))>>)

\* prepare_display_item, step by step; normalized is the dict built so far.
\* `if "kwargs" not in normalized and isinstance(nested_item.get("kwargs"), Mapping)`
display_kwargs(normalized, nested_item) ==
    IF ~Has(normalized, "kwargs") /\ IsDict(Get(nested_item, "kwargs"))
    THEN Put(normalized, "kwargs", Get(nested_item, "kwargs"))
    ELSE normalized

\* `nested_item = normalized.get("item")` and the block that flattens it
display_nested(normalized, nested_item) ==
    IF IsDict(nested_item)
    THEN display_kwargs(SetDefault(Put(normalized, "item", nested_item), "name",
                                   Get(nested_item, "name")),
                        nested_item)
    ELSE normalized

\* `if exit_status_from_result: normalized["exit_status"] = ...`
display_exit_status(normalized, exit_status_from_result) ==
    IF Truthy(exit_status_from_result)
    THEN Put(normalized, "exit_status", exit_status_from_result) ELSE normalized

\* the block under `if completed and isinstance(result, Mapping)`
display_result(normalized, completed, result) ==
    IF completed /\ IsDict(result)
    THEN display_exit_status(
             \* `if status_from_result: normalized["status"] = status_from_result`
             IF Truthy(Or(Get(result, "status"), Get(result, "state")))
             THEN Put(normalized, "status", Or(Get(result, "status"), Get(result, "state")))
             ELSE normalized,
             Get(result, "exit_status"))
    ELSE normalized

\* `if exit_status_from_item and "exit_status" not in normalized`
display_item_exit_status(normalized, exit_status_from_item) ==
    IF Truthy(exit_status_from_item) /\ ~Has(normalized, "exit_status")
    THEN Put(normalized, "exit_status", exit_status_from_item) ELSE normalized

\* the block under `if completed and isinstance(nested, Mapping)`
display_item(normalized, completed, nested) ==
    IF completed /\ IsDict(nested)
    THEN display_item_exit_status(
             \* `if status_from_item and "status" not in normalized`
             IF Truthy(Get(nested, "status")) /\ ~Has(normalized, "status")
             THEN Put(normalized, "status", Get(nested, "status")) ELSE normalized,
             Get(nested, "exit_status"))
    ELSE normalized

\* `if completed: normalized.setdefault("status", "completed"); ...`
display_completed(normalized, completed) ==
    IF completed
    THEN \* `normalized.setdefault("state", normalized.get("status"))`
         SetDefault(SetDefault(normalized, "status", Str("completed")), "state",
                    Get(SetDefault(normalized, "status", Str("completed")), "status"))
    ELSE normalized

\* from `result = normalized.get("result")` to the end
display_rest(normalized, completed) ==
    SetDefault(
        display_completed(
            display_item(display_result(normalized, completed, Get(normalized, "result")),
                         completed,
                         \* "item" is not written after this point
                         Get(normalized, "item")),
            completed),
        "name", Str("Unknown"))

\* `normalized = dict(item) if isinstance(item, Mapping) else {"name": str(item)}`;
\* normalized["kwargs"] = dict(kwargs) is a copy with the same content
prepare_display_item(item, completed) ==
    display_rest(
        display_nested(
            IF IsDict(item) THEN item ELSE Dict(<<KV("name", Str(StrOf(item)))>>),
            Get(IF IsDict(item) THEN item ELSE Dict(<<KV("name", Str(StrOf(item)))>>),
                "item")),
        completed)

\* key.split("."): the dotted keys of the model, tabulated.
KeyParts(key) ==
    IF key = "result.exit_status" THEN <<"result", "exit_status">> ELSE <<key>>

NotFound == [found |-> FALSE, v |-> NoneV]

\* extract_item_field.resolve: walk key_parts from position i into `current`.
RECURSIVE resolve(_, _, _)
resolve(current, key_parts, i) ==
    IF i > Len(key_parts) THEN [found |-> TRUE, v |-> current]
    ELSE LET part == key_parts[i]
         IN  IF IsDict(current)
             THEN IF Has(current, part)
                  THEN resolve(Get(current, part), key_parts, i + 1)
                  ELSE NotFound
             ELSE IF IsList(current)
             THEN LET hits == {j \in 1..Len(current.l) : Has(current.l[j], part)}
                  IN  IF hits = {} THEN NotFound
                      ELSE resolve(Get(current.l[CHOOSE j \in hits :
                                          \A h \in hits : j <= h], part),
                                   key_parts, i + 1)
             ELSE NotFound

extract_item_field(item, key) ==
    IF ~IsDict(item) THEN NoneV
    ELSE LET key_parts == KeyParts(key)
             candidates == <<item, Get(item, "kwargs"), Get(item, "result"),
                             Get(item, "metadata"), Get(item, "item")>>
             hits == {c \in 1..5 : IsDict(candidates[c])
                                   /\ resolve(candidates[c], key_parts, 1).found}
         IN  IF hits = {} THEN NoneV
             ELSE resolve(candidates[CHOOSE c \in hits : \A h \in hits : c <= h],
                          key_parts, 1).v

\* roi_key_map: an ordered dict column id -> list of candidate keys.
RoiHas(roi_key_map, column_id) ==
    \E i \in 1..Len(roi_key_map) : roi_key_map[i].k = column_id
RoiGet(roi_key_map, column_id) ==
    IF RoiHas(roi_key_map, column_id)
    THEN roi_key_map[CHOOSE i \in 1..Len(roi_key_map) : roi_key_map[i].k = column_id].v
    ELSE <<>>

\* available_params: Optional[set[str]]
AvailableParams(given, names) == [given |-> given, names |-> names]

\* Results of lookup_roi_value with include_key=True: None or (value, key).
RoiNone == [isNone |-> TRUE, value |-> NoneV, key |-> ""]
RoiPair(value, key) == [isNone |-> FALSE, value |-> value, key |-> key]
FirstOf(S) == CHOOSE i \in S : \A j \in S : i <= j

\* lookup_roi_value._check_mapping
check_mapping(mapping, candidates, available_params) ==
    LET valued == {i \in 1..Len(candidates) :
                      Has(mapping, candidates[i]) /\ ~IsNone(Get(mapping, candidates[i]))}
        declared == {i \in 1..Len(candidates) : candidates[i] \in available_params.names}
    IN  IF valued # {}
        THEN RoiPair(Get(mapping, candidates[FirstOf(valued)]), candidates[FirstOf(valued)])
        ELSE IF available_params.given /\ declared # {}
        THEN RoiPair(NoneV, candidates[FirstOf(declared)])
        ELSE RoiNone

\* The tail of lookup_roi_value: the candidates tried with extract_item_field,
\* then the declared parameters.
lookup_extracted(item, candidates, available_params, extracted, declared) ==
    IF extracted # {}
    THEN RoiPair(extract_item_field(item, candidates[FirstOf(extracted)]),
                 candidates[FirstOf(extracted)])
    ELSE IF available_params.given /\ declared # {}
    THEN RoiPair(NoneV, candidates[FirstOf(declared)])
    ELSE RoiNone

\* lookup_roi_value once kwargs and item["kwargs"] have been looked into.
lookup_in(item, candidates, available_params, fromKwargs, fromNested) ==
    IF candidates = <<>> THEN RoiNone
    ELSE IF ~fromKwargs.isNone THEN fromKwargs
    ELSE IF ~fromNested.isNone THEN fromNested
    ELSE lookup_extracted(item, candidates, available_params,
             {i \in 1..Len(candidates) : ~IsNone(extract_item_field(item, candidates[i]))},
             {i \in 1..Len(candidates) : candidates[i] \in available_params.names})

\* check_mapping on a value that may not be a mapping
check_if_mapping(mapping, candidates, available_params) ==
    IF IsDict(mapping) THEN check_mapping(mapping, candidates, available_params)
    ELSE RoiNone

\* lookup_roi_value(column_id, item, roi_key_map, include_key=True, available_params)
lookup_roi_value(column_id, item, roi_key_map, available_params) ==
    lookup_in(item, RoiGet(roi_key_map, column_id), available_params,
              check_if_mapping(Get(item, "kwargs"), RoiGet(roi_key_map, column_id),
                               available_params),
              check_if_mapping(Get(Get(item, "item"), "kwargs"),
                               RoiGet(roi_key_map, column_id), available_params))


\* str(row_index + 1) for the row indices of the model.
IntText(n) ==
    CASE n = 0 -> "0" [] n = 1 -> "1" [] n = 2 -> "2" [] n = 3 -> "3"
      [] n = 4 -> "4" [] n = 5 -> "5" [] n = 6 -> "6" [] n = 7 -> "7"
      [] OTHER -> "8"

\* A (text, key) result; key "" stands for None.
Cell(text, key) == [text |-> text, key |-> key]

\* What stands for the UnboundLocalError that `return status, column_id`
\* raises when no branch has assigned `status`.
UnboundLocal == "UnboundLocalError"

\* The state/status branch of resolve_queue_value.  A record whose result
\* carries no exit_status leaves `status` unbound.
status_text(item, running) ==
    IF ~IsNone(Get(item, "result"))
    THEN IF ~IsNone(Get(Get(item, "result"), "exit_status"))
         THEN StrOf(Get(Get(item, "result"), "exit_status"))
         ELSE UnboundLocal
    ELSE IF ~IsNone(Get(item, "status")) THEN StrOf(Get(item, "status"))
    ELSE IF running THEN "Running"
    ELSE "Pending"

\* The tail of resolve_queue_value, after the roi, name and kwargs branches;
\* value is extract_item_field(item, column_id), fallback is item.get(column_id).
resolve_with(column_id, item, running, value, fallback) ==
    IF column_id \in {"plan", "name"}
    THEN Cell(StrOf(Or(Or(value, Get(item, "name")), Str("Unknown"))), column_id)
    ELSE IF column_id \in {"state", "status"}
    THEN Cell(status_text(item, running), column_id)
    ELSE IF column_id = "scan_ids"
    THEN IF ~IsNone(Get(item, "result"))
            /\ ~IsNone(Get(Get(item, "result"), "scan_ids"))
         THEN Cell(format_sequence(Get(Get(item, "result"), "scan_ids")), column_id)
         ELSE Cell("", column_id)
    ELSE IF column_id \in {"uid", "item_uid"}
    THEN Cell(StrOf(Or(Or(Or(value, Get(item, "item_uid")), Get(item, "uid")),
                       Str(""))), column_id)
    ELSE IF column_id = "args"
    THEN Cell(format_sequence(Or(Or(value, Get(item, "args")), List(<<>>))), column_id)
    ELSE IF column_id = "kwargs"
            /\ IsDict(Or(Or(value, Get(item, "kwargs")), EmptyDict))
    THEN Cell(FormatMapping(Or(Or(value, Get(item, "kwargs")), EmptyDict)), "")
    ELSE IF IsList(value) THEN Cell(format_sequence(value), column_id)
    ELSE IF IsDict(value) THEN Cell(FormatMapping(value), column_id)
    ELSE IF IsNone(value)
    THEN IF IsList(fallback) THEN Cell(format_sequence(fallback), column_id)
         ELSE IF IsDict(fallback) THEN Cell(FormatMapping(fallback), column_id)
         ELSE IF IsNone(fallback) THEN Cell("", column_id)
         ELSE Cell(format_scalar(fallback), column_id)
    ELSE Cell(format_scalar(value), column_id)

resolve_generic(column_id, item, running) ==
    resolve_with(column_id, item, running, extract_item_field(item, column_id),
                 Get(item, column_id))

\* resolve_queue_value once lookup_roi_value has answered roi_value.
resolve_after_roi(column_id, item, row_index, roi_key_map, running, roi_value, kwargs) ==
    IF column_id = "index" THEN Cell(IntText(row_index + 1), "")
    ELSE IF RoiHas(roi_key_map, column_id) /\ ~roi_value.isNone
    THEN Cell(format_scalar(roi_value.value),
              IF roi_value.key # "" THEN roi_value.key ELSE column_id)
    ELSE IF column_id = "name"
    THEN Cell(StrOf(Or(Or(extract_item_field(item, "name"), Get(item, "name")),
                       Str("Unknown"))), "name")
    ELSE IF IsDict(kwargs) /\ Has(kwargs, column_id)
    THEN Cell(format_scalar(Get(kwargs, column_id)), column_id)
    ELSE resolve_generic(column_id, item, running)

resolve_queue_value(column_id, item, row_index, roi_key_map, available_params, running) ==
    resolve_after_roi(column_id, item, row_index, roi_key_map, running,
                      lookup_roi_value(column_id, item, roi_key_map, available_params),
                      Get(item, "kwargs"))

\* Outcomes of apply_item_edit: it returns True or False, or raises ValueError
\* out of coerce_for_key; `item` is the record as the call leaves it.
\* An apply_item_edit that would write into the record before it coerces.
EditRaiseAfterWrite(item) == [st |-> "raise", item |-> Put(item, "edited", Str("partial"))]
EditTrue(item) == [st |-> "true", item |-> item]
EditRaise(item) == [st |-> "raise", item |-> item]

ensure_kwargs_container(item) ==
    IF IsDict(Get(item, "kwargs")) THEN item ELSE Put(item, "kwargs", EmptyDict)

NestedKeys == <<"item", "metadata", "result">>

RECURSIVE apply_item_edit(_, _, _, _, _, _)
RECURSIVE apply_aliases(_, _, _, _, _, _, _, _)
RECURSIVE apply_nested(_, _, _, _, _, _, _, _)

\* for alias in aliases: ... (from position i), then the `if aliases:` tail.
apply_aliases(item, column_id, aliases, i, text_value, plan_name, plan_definitions,
              roi_key_map) ==
    IF i > Len(aliases)
    THEN IF aliases # <<>>
         THEN LET container == ensure_kwargs_container(item)
                  c == coerce_for_key(plan_definitions, plan_name, aliases[1], text_value)
              IN  IF c.ok
                  THEN EditTrue(Put(container, "kwargs",
                                    Put(Get(container, "kwargs"), aliases[1], c.v)))
                  ELSE EditRaise(container)
         ELSE [st |-> "false", item |-> item]
    ELSE IF aliases[i] = column_id
    THEN apply_aliases(item, column_id, aliases, i + 1, text_value, plan_name,
                       plan_definitions, roi_key_map)
    ELSE LET r == apply_item_edit(item, aliases[i], text_value, plan_name,
                                  plan_definitions, roi_key_map)
         IN  IF r.st = "false"
             THEN apply_aliases(r.item, column_id, aliases, i + 1, text_value, plan_name,
                                plan_definitions, roi_key_map)
             ELSE r

\* for nested_key in ("item", "metadata", "result"): ... (from position i),
\* then the fallback that creates the kwargs entry.
apply_nested(item, column_id, value, i, text_value, plan_name, plan_definitions,
             roi_key_map) ==
    IF i > Len(NestedKeys)
    THEN LET container == ensure_kwargs_container(item)
         IN  EditTrue(Put(container, "kwargs", Put(Get(container, "kwargs"), column_id, value)))
    ELSE LET nested == Get(item, NestedKeys[i])
         IN  IF IsDict(nested)
             THEN LET r == apply_item_edit(nested, column_id, text_value, plan_name,
                                           plan_definitions, roi_key_map)
                  IN  IF r.st = "true" THEN EditTrue(Put(item, NestedKeys[i], r.item))
                      ELSE IF r.st = "raise" THEN EditRaise(Put(item, NestedKeys[i], r.item))
                      ELSE apply_nested(Put(item, NestedKeys[i], r.item), column_id, value,
                                        i + 1, text_value, plan_name, plan_definitions,
                                        roi_key_map)
             ELSE apply_nested(item, column_id, value, i + 1, text_value, plan_name,
                               plan_definitions, roi_key_map)

apply_item_edit(item, column_id, text_value, plan_name, plan_definitions, roi_key_map) ==
    LET c == coerce_for_key(plan_definitions, plan_name, column_id, text_value)
        kwargs == Get(item, "kwargs")
    IN  IF ~c.ok THEN EditRaise(item)
        ELSE IF Has(item, column_id) THEN EditTrue(Put(item, column_id, c.v))
        ELSE IF IsDict(kwargs) /\ Has(kwargs, column_id)
        THEN EditTrue(Put(item, "kwargs", Put(kwargs, column_id, c.v)))
        ELSE IF RoiHas(roi_key_map, column_id)
        THEN apply_aliases(item, column_id, RoiGet(roi_key_map, column_id), 1, text_value,
                           plan_name, plan_definitions, roi_key_map)
        ELSE apply_nested(item, column_id, c.v, 1, text_value, plan_name,
                          plan_definitions, roi_key_map)

\* build_update_payload: the loop over row_values (an ordered dict of texts)
\* from position i; acc is payload["kwargs"] with the removals and updates
\* applied so far.  Popping and updating commute here because a key is either
\* removed or updated.
RECURSIVE payload_kwargs(_, _, _, _, _)
payload_kwargs(acc, row_values, i, exclude, parameters) ==
    IF i > Len(row_values) THEN Ok(acc)
    ELSE LET key == row_values[i].k
             value == row_values[i].v
             hits == {j \in 1..Len(parameters) : parameters[j].name = key}
             c == IF hits = {} THEN Ok(Str(value))
                  ELSE coerce(parameters[CHOOSE j \in hits : \A h \in hits : j >= h], value)
         IN  IF key \in exclude
             THEN payload_kwargs(acc, row_values, i + 1, exclude, parameters)
             ELSE IF Strip(value) = ""
             THEN payload_kwargs(Pop(acc, key), row_values, i + 1, exclude, parameters)
             ELSE IF ~c.ok THEN ValueError
             ELSE payload_kwargs(Put(acc, key, c.v), row_values, i + 1, exclude, parameters)

\* A build_update_payload that would start from empty kwargs.
build_update_payload_from_empty(raw_item, row_values, exclude_keys, plan_definitions, plan_name) ==
    LET plans == PlanNamed(plan_definitions, plan_name)
        parameters == IF plans = {} THEN <<>> ELSE (CHOOSE d \in plans : TRUE).parameters
        payload == ensure_kwargs_container(clone_item(raw_item))
        kw == payload_kwargs(EmptyDict, row_values, 1, exclude_keys, parameters)
    IN  IF kw.ok THEN Ok(Put(payload, "kwargs", kw.v)) ELSE ValueError

build_update_payload(raw_item, row_values, exclude_keys, plan_definitions, plan_name) ==
    LET plans == PlanNamed(plan_definitions, plan_name)
        parameters == IF plans = {} THEN <<>> ELSE (CHOOSE d \in plans : TRUE).parameters
        payload == ensure_kwargs_container(clone_item(raw_item))
        kw == payload_kwargs(Get(payload, "kwargs"), row_values, 1, exclude_keys, parameters)
    IN  IF kw.ok THEN Ok(Put(payload, "kwargs", kw.v)) ELSE ValueError


(***************************************************************************)
(* The configuration and the remote's records                              *)
(***************************************************************************)
\* roi_key_map as normalize_roi_map leaves it: column "width" is satisfied
\* by the keys "width" and "roi_width", tried in order.
RoiKeyMap == <<KV("width", <<"width", "roi_width">>)>>
\* self._roi_value_aliases
RoiValueAliases ==
    {RoiKeyMap[i].v[j] : i \in 1..Len(RoiKeyMap), j \in 1..2} \ {"title"}

\* What get_allowed_plan_definitions answers: one plan, scan(dwell: float,
\* roi_width: int).
AllowedPlans ==
    <<[name |-> "scan",
       parameters |-> <<PlanParameter("dwell", NoneV, "float"),
                        PlanParameter("roi_width", NoneV, "int")>>]>>

\* What controller.get_allowed_plan_definitions does: it raises, or it
\* answers a list of plan definitions.
Answered(plans) == [raised |-> FALSE, plans |-> plans]
PlanAnswers == {[raised |-> TRUE, plans |-> <<>>], Answered(<<>>), Answered(AllowedPlans)}

Uids == {"A", "B", "C"}
\* The uids the remote takes from the queue to run in the behaviours of the
\* model; the others stay queued or are deleted.
Started == {"C"}

\* The queue record the remote holds for a uid.  A is flat and holds a
\* roi_width that is not an int; B is wrapped one level under "item"; C is
\* flat and holds roi_width under "metadata".
RecordOf(uid) ==
    CASE uid = "A" ->
           Dict(<<KV("name", Str("scan")),
                  KV("kwargs", Dict(<<KV("dwell", FloatV("1.5")),
                                      KV("roi_width", FloatV("2.5"))>>)),
                  KV("item_uid", Str("A"))>>)
      [] uid = "B" ->
           Dict(<<KV("item", Dict(<<KV("name", Str("scan")),
                                    KV("kwargs", Dict(<<KV("dwell", FloatV("1.5")),
                                                        KV("note", Str("hi"))>>)),
                                    KV("item_uid", Str("B"))>>))>>)
      [] OTHER ->
           Dict(<<KV("name", Str("scan")),
                  KV("kwargs", Dict(<<KV("dwell", FloatV("1.5"))>>)),
                  KV("metadata", Dict(<<KV("roi_width", IntV("3"))>>)),
                  KV("item_uid", Str(uid))>>)

\* The history record of a uid: the queue record plus its result.
HistoryOf(uid) ==
    Put(RecordOf(uid), "result",
        Dict(<<KV("exit_status", Str("completed")),
               KV("scan_ids", List(<<IntV("7")>>))>>))


(***************************************************************************)
(* Bounds of the model                                                     *)
(***************************************************************************)
\* Polls the poll thread performs in one behaviour.
MaxPolls == 1
\* Cell edits the user commits in one behaviour.
MaxEdits == 2
\* Drags the user starts in one behaviour.
MaxDrags == 1
\* Records the remote history holds.
MaxCompleted == 1
\* Snapshot signals queued for the UI thread at one time.
MaxQueued == 1
\* Polls, committed edits and drags in one behaviour, taken together.
MaxInputs == 2
\* Records the remote history holds in the sessions that only poll.
MaxHistory == 2
\* Poll threads that start_polling creates in one behaviour.
MaxThreads == 3
\* The single-shot timers of deferred rebuilds outstanding when a poll of a
\* settled remote is delivered.
MaxTimers == 2
\* Delete requests the user sends in one behaviour.
MaxDeletes == 1

\* The texts the user types into a cell.
EditTexts == {"7", "12", "abc"}
\* The columns whose cells the user edits.
EditColumns == {"dwell"}

(***************************************************************************)
(* State                                                                   *)
(***************************************************************************)
VARIABLES
    controller,          \* QueueMonitorWidget._controller: "none" or "ctrl"
    plan_definitions,    \* _plan_definitions, a sequence of plan definitions
    plan_param_cache,    \* _plan_param_cache: plan name -> set of names
    pending_raw_items,   \* _pending_raw_items
    pending_items,       \* _pending_items
    shares,              \* shares[i]: the index of the raw record whose nested
                         \* containers _pending_items[i] holds by reference
                         \* (prepare_display_item copies one level only); 0
                         \* when that raw record is no longer in the list
    completed_items,     \* _completed_items
    running_item,        \* _running_item
    columns,             \* the column ids of _columns
    table,               \* the QTableWidget: rows of [uid, state, cells]
    current_row,         \* QTableWidget.currentRow(), 0-based, -1 for none
    editor,              \* the open cell editor (table.state() is EditingState)
    pending_table_refresh, \* _pending_table_refresh
    timers,              \* armed QTimer.singleShot(_attempt_refresh_after_edit)
    status_message,      \* the text of _status_label / emit_status
    drag,                \* QueueTableCursorController: _pending_uids,
                         \* _pending_row_count, _pending_drop_row,
                         \* _pending_drag_uid, _drag_enabled, and whether a
                         \* drag is in progress
    ui,                  \* the UI thread: "idle" in the event loop, or the
                         \* handler blocked in a remote call, with its locals
    requests,            \* remote commands sent and not yet answered
    ui_queue,            \* queueUpdated emissions queued for the UI thread
    polling,             \* the poll thread is alive
    n_polls, n_edits, n_drags,
    last,                \* what the last UI handler did, and the pending
                         \* lists as they were when it started
    drag_start_uid,      \* the uid of the row the user started to drag
    views,               \* what each run of _rebuild_queue_table in the last
                         \* step put into the table, in the order of the runs
    poll_thread,         \* QServerController: the position of the poll thread
                         \* in _target ("none" when it has ended), _poll_stop,
                         \* whether _poll_thread is set, and whether
                         \* stop_polling has returned
    call                 \* a call of one of the record helpers: its arguments
                         \* and, once it has returned, its result

vars == <<controller, plan_definitions, plan_param_cache, pending_raw_items,
          pending_items, shares, completed_items, running_item, columns, table,
          current_row, editor, pending_table_refresh, timers, status_message,
          drag, ui, requests, ui_queue, polling, n_polls, n_edits, n_drags,
          last, drag_start_uid, views, poll_thread, call>>

\* uid is the uid role of the row when the editor was opened
NoEditor == [open |-> FALSE, row |-> -1, col |-> 0, uid |-> ""]

(***************************************************************************)
(* Snapshots of the remote                                                 *)
(***************************************************************************)
\* Sequences of distinct uids drawn from S, of length at most n.
RECURSIVE UidSeqs(_, _)
UidSeqs(S, n) ==
    IF n = 0 \/ S = {} THEN {<<>>}
    ELSE {<<>>} \cup UNION {{<<u>> \o rest : rest \in UidSeqs(S \ {u}, n - 1)} : u \in S}

\* What _fetch_queue can answer: a consistent remote state, in which a uid is
\* pending, running or completed but never two of these.  The uids in
\* `started` are those the remote has taken from the queue to run, and the
\* history holds at most max_completed records, oldest first.
SnapshotsOf(started, max_completed) ==
    UNION {UNION {{[pending |-> [i \in 1..Len(p) |-> RecordOf(p[i])],
                    running |-> IF r = "" THEN NoneV ELSE RecordOf(r),
                    completed |-> [i \in 1..Len(c) |-> HistoryOf(c[i])],
                    \* both requests of the fetch have succeeded
                    queue_ok |-> TRUE, history_ok |-> TRUE]
                   : c \in UidSeqs((started \ SeqToSet(p)) \ {r}, max_completed)}
                  : r \in {""} \cup (started \ SeqToSet(p))}
           : p \in UidSeqs(Uids, Cardinality(Uids))}

Snapshots == SnapshotsOf(Started, MaxCompleted)

\* The snapshots of a remote that has run B and C and keeps both in its
\* history.
HistorySnapshots == SnapshotsOf({"B", "C"}, MaxHistory)

NoSnapshot ==
    [pending |-> <<>>, running |-> NoneV, completed |-> <<>>,
     queue_ok |-> TRUE, history_ok |-> TRUE]

\* The remote states the poll thread meets in the sessions that follow it
\* step by step: the queue is empty or holds A.
PollRemotes == {s \in Snapshots : s.pending \in {<<>>, <<RecordOf("A")>>}}

(***************************************************************************)
(* core/qserver_controller.py: _fetch_queue                                *)
(***************************************************************************)
\* What api.queue_get() and api.history_get() can do: raise, answer success
\* false, or answer the records of the remote.
RequestRaised == [raised |-> TRUE, success |-> FALSE, items |-> <<>>, running_item |-> NoneV]
RequestFailed == [raised |-> FALSE, success |-> FALSE, items |-> <<>>, running_item |-> NoneV]
RequestDone(items, active) ==
    [raised |-> FALSE, success |-> TRUE, items |-> items, running_item |-> active]

QueueResponses(remote) ==
    {RequestRaised, RequestFailed, RequestDone(remote.pending, remote.running)}
HistoryResponses(remote) ==
    {RequestRaised, RequestFailed, RequestDone(remote.completed, NoneV)}

\* _fetch_queue: None when a request raises; otherwise a snapshot whose
\* lists stay empty for a response that is not a success.  queue_ok and
\* history_ok record which responses were a success; QueueSnapshot has no
\* such fields.
NoFetch == [none |-> TRUE, snapshot |-> NoSnapshot]
fetch_queue(queue_response, history_response) ==
    IF queue_response.raised \/ history_response.raised THEN NoFetch
    ELSE [none |-> FALSE,
          snapshot |->
              [pending |-> IF queue_response.success THEN queue_response.items ELSE <<>>,
               running |-> IF queue_response.success
                           THEN queue_response.running_item ELSE NoneV,
               completed |-> IF history_response.success
                             THEN history_response.items ELSE <<>>,
               queue_ok |-> queue_response.success,
               history_ok |-> history_response.success]]


(***************************************************************************)
(* The widget's fields as one record, so that a handler is the composition *)
(* of the methods it calls.                                                *)
(***************************************************************************)
Widget ==
    [controller |-> controller,
     \* what the controller's get_allowed_plan_definitions does when called
     allowed |-> Answered(AllowedPlans),
     plan_definitions |-> plan_definitions,
     plan_param_cache |-> plan_param_cache,
     pending_raw_items |-> pending_raw_items,
     pending_items |-> pending_items,
     shares |-> shares,
     completed_items |-> completed_items,
     running_item |-> running_item,
     columns |-> columns,
     table |-> table,
     current_row |-> current_row,
     editing |-> editor.open,
     pending_table_refresh |-> pending_table_refresh,
     timers |-> timers,
     status_message |-> status_message,
     drag |-> drag,
     \* _suppress_item_changed and blockSignals() of the table, both clear
     \* whenever the UI thread is in its event loop, and the cells for which
     \* _handle_item_changed has gone past its test of _suppress_item_changed
     \* in this step
     signals |-> [suppress_item_changed |-> FALSE, blocked |-> FALSE, item_changed |-> <<>>],
     \* the runs of _rebuild_queue_table in this step
     views |-> <<>>]

SetWidget(w) ==
    /\ controller' = w.controller
    /\ plan_definitions' = w.plan_definitions
    /\ plan_param_cache' = w.plan_param_cache
    /\ pending_raw_items' = w.pending_raw_items
    /\ pending_items' = w.pending_items
    /\ shares' = w.shares
    /\ completed_items' = w.completed_items
    /\ running_item' = w.running_item
    /\ columns' = w.columns
    /\ table' = w.table
    /\ current_row' = w.current_row
    /\ pending_table_refresh' = w.pending_table_refresh
    /\ timers' = w.timers
    /\ status_message' = w.status_message
    /\ drag' = w.drag
    /\ views' = w.views

\* QueueMonitorWidget._get_uid
get_uid(item) ==
    StrOf(Or(Or(extract_item_field(item, "item_uid"), extract_item_field(item, "uid")),
             Str("")))

\* QueueTableCursorController._extract_uid, `or ""` applied
extract_uid(item) ==
    LET nested == Get(item, "item")
        candidates == <<Get(item, "item_uid"), Get(item, "uid")>>
                      \o (IF IsDict(nested)
                          THEN <<Get(nested, "item_uid"), Get(nested, "uid")>>
                          ELSE <<>>)
        hits == {i \in 1..Len(candidates) : candidates[i].t = "str" /\ candidates[i].s # ""}
    IN  IF hits = {} THEN "" ELSE candidates[FirstOf(hits)].s

\* QueueMonitorWidget._extract_plan_name
extract_plan_name(item) ==
    IF Truthy(Get(item, "name")) THEN StrOf(Get(item, "name"))
    ELSE StrOf(Or(extract_item_field(item, "name"), Str("")))

\* controller.get_plan_parameters_names(name=plan_name)
PlanParametersNames(definitions, plan_name) ==
    LET plans == PlanNamed(definitions, plan_name)
    IN  IF plans = {} THEN {}
        ELSE LET d == CHOOSE d \in plans : TRUE
             IN  {d.parameters[i].name : i \in 1..Len(d.parameters)}

get_plan_parameters_names(plan_name) == PlanParametersNames(AllowedPlans, plan_name)


\* An add that would not look at the ids already seen.
AddColumnsUnseen(required, ids, i) == required \o SubSeq(ids, i, Len(ids))

\* _ensure_columns.add over a sequence of ids
RECURSIVE AddColumns(_, _, _)
AddColumns(required, ids, i) ==
    IF i > Len(ids) THEN required
    ELSE AddColumns(IF ids[i] = "" \/ ids[i] \in SeqToSet(required)
                    THEN required ELSE Append(required, ids[i]),
                    ids, i + 1)

\* self._roi_value_aliases of a widget built with roi_key_map
ValueAliasesOf(roi_key_map) ==
    UNION {SeqToSet(roi_key_map[i].v) : i \in 1..Len(roi_key_map)} \ {"title"}

\* `if key in self._roi_value_aliases: continue`
SelectKeysFor(aliases, keys) == SelectSeq(keys, LAMBDA k : k \notin aliases)
SelectKeys(keys) == SelectKeysFor(RoiValueAliases, keys)

\* The kwargs keys of one record that _ensure_columns offers as columns.
DynamicKeysFor(aliases, item) ==
    LET kwargs == Get(item, "kwargs")
        nested_item == Get(item, "item")
        nested_kwargs == Get(nested_item, "kwargs")
    IN  (IF IsDict(kwargs) THEN SelectKeysFor(aliases, KeysOf(kwargs)) ELSE <<>>)
        \o (IF IsDict(nested_item) /\ IsDict(nested_kwargs)
            THEN SelectKeysFor(aliases, KeysOf(nested_kwargs)) ELSE <<>>)
DynamicKeys(item) == DynamicKeysFor(RoiValueAliases, item)

RECURSIVE AddDynamicFor(_, _, _, _)
AddDynamicFor(aliases, required, queue, i) ==
    IF i > Len(queue) THEN required
    ELSE AddDynamicFor(aliases, AddColumns(required, DynamicKeysFor(aliases, queue[i]), 1),
                       queue, i + 1)
AddDynamic(required, queue, i) == AddDynamicFor(RoiValueAliases, required, queue, i)

\* The ordered column ids _ensure_columns computes for the visible records
\* in a widget built with roi_key_map.
RequiredColumnsFor(roi_key_map, queue) ==
    AddDynamicFor(ValueAliasesOf(roi_key_map),
                  AddColumns(<<"status", "name", "scan_ids">>,
                             [i \in 1..Len(roi_key_map) |-> roi_key_map[i].k], 1),
                  queue, 1)
RequiredColumns(queue) == RequiredColumnsFor(RoiKeyMap, queue)

\* A comparison that would look at the zipped pairs only.
ColumnsDifferInPairs(required, cols) ==
    \E i \in 1..Min2(Len(required), Len(cols)) : required[i] # cols[i]

\* `len(required) != len(self._columns) or any(a.column_id != b.column_id
\* for a, b in zip(required, self._columns))`
ColumnsDiffer(required, cols) ==
    \/ Len(required) # Len(cols)
    \/ \E i \in 1..Min2(Len(required), Len(cols)) : required[i] # cols[i]

\* _ensure_columns in a widget built with roi_key_map: the column ids it
\* leaves in self._columns, and whether it has assigned self._columns and
\* configured the table's columns (setColumnCount, _configure_queue_table).
EnsureColumnsFor(roi_key_map, cols, queue) ==
    LET required == RequiredColumnsFor(roi_key_map, queue)
    IN  [columns |-> IF ColumnsDiffer(required, cols) THEN required ELSE cols,
         replaced |-> ColumnsDiffer(required, cols)]

\* _ensure_columns: self._columns is replaced only when the ids differ.
ensure_columns(cols, queue) == EnsureColumnsFor(RoiKeyMap, cols, queue).columns


\* The rows _rebuild_queue_table shows: [running?] + pending + completed.
VisibleWith(w, running_uid) ==
    (IF running_uid # "" THEN <<w.running_item>> ELSE <<>>)
    \o w.pending_items \o w.completed_items


\* The state _rebuild_queue_table gives table row `row` (0-based) showing a
\* record with this uid.
RowState(running_uid, n_pending, row, uid) ==
    IF running_uid # "" /\ uid = running_uid THEN "running"
    ELSE IF 0 <= row - (IF running_uid # "" THEN 1 ELSE 0)
            /\ row - (IF running_uid # "" THEN 1 ELSE 0) < n_pending
    THEN "pending"
    ELSE "completed"

\* The plan names of the records, stripped.
PlanNames(items) == {Strip(extract_plan_name(items[i])) : i \in 1..Len(items)} \ {""}

\* _plan_param_cache after _plan_parameters_for has been called for every row.
\* `allowed` is what get_allowed_plan_definitions does inside
\* get_plan_parameters_names; when it raises the names are [].
CacheAfterRows(cache, allowed, ctrl, names) ==
    [n \in DOMAIN cache \cup names |->
        IF n \in DOMAIN cache THEN cache[n]
        ELSE IF ctrl = "none" \/ allowed.raised THEN {}
        ELSE PlanParametersNames(allowed.plans, n)]

\* One cell: the text and the kwargs-key role (QUEUE_ITEM_KWARG_KEY_ROLE, ""
\* when not set); r is what resolve_queue_value answers.
BuildCell(column_id, r, param_names) ==
    [text |-> r.text,
     kw |-> IF (IF r.key # "" THEN r.key ELSE column_id) # ""
               /\ (IF r.key # "" THEN r.key ELSE column_id) \in param_names
            THEN (IF r.key # "" THEN r.key ELSE column_id) ELSE ""]

\* One table row: the uid and state roles and the cells.
BuildRow(cols, row, item, uid, state, param_names) ==
    [uid |-> uid,
     state |-> state,
     cells |-> [c \in 1..Len(cols) |->
                 BuildCell(cols[c],
                           resolve_queue_value(cols[c], item, row, RoiKeyMap,
                                               AvailableParams(TRUE, param_names), state = "running"),
                           param_names)]]


BuildRows(all_items, cols, cache, running_uid, n_pending) ==
    [i \in 1..Len(all_items) |->
        BuildRow(cols, i - 1, all_items[i], get_uid(all_items[i]),
                 RowState(running_uid, n_pending, i - 1, get_uid(all_items[i])),
                 \* _plan_parameters_for answers from the cache
                 IF Strip(extract_plan_name(all_items[i])) = "" THEN {}
                 ELSE cache[Strip(extract_plan_name(all_items[i]))])]

\* An _update_drag_state that would not look at the uids.
update_drag_state_by_count(d, ctrl) ==
    LET enabled == ctrl # "none" /\ d.pending_row_count > 1
    IN  IF enabled = d.drag_enabled THEN d
        ELSE [d EXCEPT !.drag_enabled = enabled,
                       !.mode = IF enabled THEN "InternalMove" ELSE "NoDragDrop"]

\* QueueTableCursorController._update_drag_state and sync_pending_items;
\* `mode` is the table's dragDropMode.
update_drag_state(d, ctrl) ==
    LET enabled == /\ ctrl # "none"
                   /\ d.pending_row_count > 1
                   /\ \A i \in 1..Len(d.pending_uids) : d.pending_uids[i] # ""
    IN  IF enabled = d.drag_enabled THEN d
        ELSE [d EXCEPT !.drag_enabled = enabled,
                       !.mode = IF enabled THEN "InternalMove" ELSE "NoDragDrop"]

sync_pending_items(d, ctrl, pending) ==
    update_drag_state([d EXCEPT !.pending_uids =
                                    [i \in 1..Len(pending) |-> extract_uid(pending[i])],
                                !.pending_row_count = Len(pending)], ctrl)

\* What one run of _rebuild_queue_table has shown: running_uid, the number
\* of pending records, and the uid and state roles of each row.
View(w, rows) ==
    [running_uid |-> get_uid(w.running_item),
     n_pending |-> Len(w.pending_raw_items),
     rows |-> [i \in 1..Len(rows) |-> [uid |-> rows[i].uid, state |-> rows[i].state]]]

\* The cells of `rows`, as (row, column) pairs.
CellsOf(rows, cols) ==
    [k \in 1..(Len(rows) * Len(cols)) |->
        <<(k - 1) \div Len(cols), ((k - 1) % Len(cols)) + 1>>]

\* QTableWidget.setItem and QTableWidgetItem.setText on `cells`: the table
\* emits itemChanged for each unless its signals are blocked, and the slot
\* _handle_item_changed returns at its first test when
\* _suppress_item_changed is set.
cells_written(signals, cells) ==
    IF signals.blocked \/ signals.suppress_item_changed THEN signals
    ELSE [signals EXCEPT !.item_changed = @ \o cells]

\* `self._suppress_item_changed = True; self._queue_table.blockSignals(True)`
guard_writes(w) ==
    [w EXCEPT !.signals.suppress_item_changed = TRUE, !.signals.blocked = TRUE]
\* `finally: blockSignals(False); self._suppress_item_changed = False`
release_writes(w) ==
    [w EXCEPT !.signals.suppress_item_changed = FALSE, !.signals.blocked = FALSE]

\* _rebuild_queue_table once the rows are computed.
Rebuilt(w, cols, cache, rows) ==
    [w EXCEPT !.columns = cols,
              !.signals = cells_written(@, CellsOf(rows, cols)),
              !.views = Append(w.views, View(w, rows)),
              !.plan_param_cache = cache,
              !.table = rows,
              \* setRowCount: a current row that is removed moves to the last row
              !.current_row = IF w.current_row >= Len(rows)
                              THEN Len(rows) - 1 ELSE w.current_row,
              !.drag = sync_pending_items(w.drag, w.controller, w.pending_raw_items)]

RebuildWith(w, all_items, cols, cache) ==
    Rebuilt(w, cols, cache,
            BuildRows(all_items, cols, cache, get_uid(w.running_item),
                      Len(w.pending_raw_items)))

RebuildItems(w, all_items) ==
    RebuildWith(w, all_items, ensure_columns(w.columns, all_items),
                CacheAfterRows(w.plan_param_cache, w.allowed, w.controller,
                               PlanNames(all_items)))

\* `try:` to `self._queue_table.setItem(row, column_index, cell)`
rebuild_rows(w) == RebuildItems(w, VisibleWith(w, get_uid(w.running_item)))

\* A rebuild that would write the cells without blocking the signals of the
\* table and without setting _suppress_item_changed.
rebuild_unguarded(w) == rebuild_rows(w)

rebuild_queue_table(w) == release_writes(rebuild_rows(guard_writes(w)))

\* A refresh that would note the request without starting the timer.
refresh_without_timer(w) ==
    IF w.editing
    THEN [w EXCEPT !.pending_table_refresh = TRUE]
    ELSE rebuild_queue_table([w EXCEPT !.pending_table_refresh = FALSE])

refresh_queue_table(w) ==
    IF w.editing
    THEN IF ~w.pending_table_refresh
         THEN [w EXCEPT !.pending_table_refresh = TRUE, !.timers = w.timers + 1]
         ELSE w
    ELSE rebuild_queue_table([w EXCEPT !.pending_table_refresh = FALSE])

\* An update_completed that would keep the order of the history.
update_completed_oldest_first(w, completed) ==
    refresh_queue_table(
        [w EXCEPT !.completed_items =
            [i \in 1..Len(completed) |-> prepare_display_item(completed[i], TRUE)]])

update_completed(w, completed) ==
    refresh_queue_table(
        [w EXCEPT !.completed_items =
            [i \in 1..Len(completed) |->
                prepare_display_item(completed[Len(completed) + 1 - i], TRUE)]])

update_queue(w, queue) ==
    refresh_queue_table(
        [w EXCEPT !.pending_raw_items = [i \in 1..Len(queue) |-> clone_item(queue[i])],
                  !.pending_items =
                      [i \in 1..Len(queue) |-> prepare_display_item(clone_item(queue[i]), FALSE)],
                  !.shares = [i \in 1..Len(queue) |-> i]])

\* An update_active that would keep the running record when the remote
\* runs nothing.
update_active_when_running(w, item) ==
    refresh_queue_table(IF IsNone(item) THEN w ELSE [w EXCEPT !.running_item = clone_item(item)])

update_active(w, item) ==
    refresh_queue_table([w EXCEPT !.running_item = clone_item(item)])

apply_snapshot(w, snapshot) ==
    update_active(update_queue(update_completed(w, snapshot.completed), snapshot.pending),
                  snapshot.running)

\* A load that would keep the parameter names it has cached.
LoadKeepingCache(w) ==
    IF w.controller = "none" \/ w.allowed.raised THEN [w EXCEPT !.plan_definitions = <<>>]
    ELSE [w EXCEPT !.plan_definitions = w.allowed.plans]

\* _load_plan_definitions; w.allowed is what get_allowed_plan_definitions does
load_plan_definitions(w) ==
    IF w.controller = "none" \/ w.allowed.raised THEN [w EXCEPT !.plan_definitions = <<>>]
    ELSE [w EXCEPT !.plan_definitions = w.allowed.plans,
                   !.plan_param_cache = <<>>]

handle_queue_updated(w, snapshot) ==
    apply_snapshot(IF w.plan_definitions = <<>> THEN load_plan_definitions(w) ELSE w,
                   snapshot)

\* set_controller(ctrl); `fetched` is what fetch_snapshot answers, <<>> for
\* None and <<snapshot>> otherwise.
set_controller(w, ctrl, fetched) ==
    IF ctrl = w.controller THEN w
    ELSE LET w1 == load_plan_definitions([w EXCEPT !.controller = ctrl,
                                                   !.plan_param_cache = <<>>])
             w2 == [w1 EXCEPT !.drag = update_drag_state(w1.drag, ctrl)]
         IN  IF ctrl = "none" \/ fetched = <<>> THEN w2
             ELSE apply_snapshot(w2, fetched[1])


(***************************************************************************)
(* Shared containers.  prepare_display_item copies the record and its      *)
(* "item" and "kwargs" one level deep; every other container of the        *)
(* display record is the very object the raw record holds, so an edit made *)
(* in place in the raw record shows through it.                            *)
(***************************************************************************)

\* The display record `display` once the raw record it shares containers
\* with has become `raw`.
RECURSIVE SyncKeys(_, _, _, _)
SyncKeys(display, raw, skip, i) ==
    IF i > Len(display.d) THEN display
    ELSE LET k == display.d[i].k
         IN  SyncKeys(IF k \notin skip /\ (IsDict(display.d[i].v) \/ IsList(display.d[i].v)) /\ Has(raw, k)
                      THEN Put(display, k, Get(raw, k)) ELSE display,
                      raw, skip, i + 1)

SyncShared(display, raw) ==
    LET top == SyncKeys(display, raw, {"item", "kwargs"}, 1)
    IN  IF IsDict(Get(top, "item")) /\ IsDict(Get(raw, "item"))
        THEN Put(top, "item", SyncKeys(Get(top, "item"), Get(raw, "item"), {}, 1))
        ELSE top

\* The raw record at position r (1-based) is changed in place to `raw`.
MutateRaw(w, r, raw) ==
    [w EXCEPT !.pending_raw_items[r] = raw,
              !.pending_items = [i \in 1..Len(w.pending_items) |->
                                    IF w.shares[i] = r
                                    THEN SyncShared(w.pending_items[i], raw)
                                    ELSE w.pending_items[i]]]

\* self._pending_raw_items[r] = <a new object>: the displays that shared the
\* containers of the old object keep them, out of the list's reach.
ReplaceRaw(w, r, raw) ==
    [w EXCEPT !.pending_raw_items[r] = raw,
              !.shares = [i \in 1..Len(w.shares) |->
                             IF w.shares[i] = r THEN 0 ELSE w.shares[i]]]

\* self._pending_items[r] = display, which shares the containers of the raw
\* record at position `share` (0 for none).
ReplaceDisplay(w, r, display, share) ==
    [w EXCEPT !.pending_items[r] = display, !.shares[r] = share]

set_status_message(w, message) == [w EXCEPT !.status_message = message]

\* _restore_cell_from_value: cell.setText(value) with signals blocked.
restore_cell_from_value(w, cell_row, col, value) ==
    release_writes([guard_writes(w) EXCEPT
                       !.table[cell_row + 1].cells[col].text = value,
                       !.signals = cells_written(@, <<<<cell_row, col>>>>)])

\* _format_queue_value
format_queue_value(column_id, item, row_index) ==
    resolve_queue_value(column_id, item, row_index, RoiKeyMap, AvailableParams(FALSE, {}), FALSE).text

\* _restore_cell_from_cache
restore_cell_from_cache(w, cell_row, row, col) ==
    IF 0 <= row /\ row < Len(w.pending_items) /\ col <= Len(w.columns)
    THEN restore_cell_from_value(w, cell_row, col,
             format_queue_value(w.columns[col], w.pending_items[row + 1], row))
    ELSE w

\* _get_row_values: an ordered dict key -> text of the table row.
RECURSIVE RowValues(_, _, _, _)
RowValues(acc, cols, cells, i) ==
    IF i > Len(cols) THEN acc
    ELSE LET key == IF cells[i].kw # "" THEN cells[i].kw ELSE cols[i]
         IN  RowValues(Put(acc, key, cells[i].text), cols, cells, i + 1)

get_row_values(w, row) ==
    IF row < 0 \/ row >= Len(w.table) THEN <<>>
    ELSE RowValues(EmptyDict, w.columns, w.table[row + 1].cells, 1).d

\* The local variables of _handle_item_changed.  previous_display is the
\* display object of the edited row as it is now, prev_share the position of
\* the raw record it shares containers with, payload the update payload once
\* it is built.
NoLocals ==
    [row |-> -1, cell_row |-> -1, col |-> 0, previous_raw |-> NoneV,
     previous_display |-> NoneV, prev_share |-> 0, old_text |-> "", uid |-> "",
     payload |-> NoneV]

\* _revert_pending_edit: `self._pending_raw_items[row] = clone_item(previous_raw)`
revert_raw(w, row, previous_raw) ==
    IF 0 <= row /\ row < Len(w.pending_raw_items)
    THEN ReplaceRaw(w, row + 1, clone_item(previous_raw)) ELSE w

\* _revert_pending_edit:
\* `self._pending_items[row] = prepare_display_item(previous_display)`
revert_display(w, row, previous_display, share) ==
    IF 0 <= row /\ row < Len(w.pending_items)
    THEN ReplaceDisplay(w, row + 1, prepare_display_item(previous_display, FALSE), share)
    ELSE w

\* _revert_pending_edit with previous_raw, previous_display and old_text
\* given, as the locals l hold them.
revert_pending_edit(w, row, l, message) ==
    restore_cell_from_value(
        revert_display(revert_raw(set_status_message(w, message), row, l.previous_raw),
                       row, l.previous_display,
                       \* the object previous_display shares with stays in the list
                       \* unless revert_raw has just replaced it
                       IF l.prev_share = row + 1 /\ 0 <= row
                          /\ row < Len(w.pending_raw_items)
                       THEN 0 ELSE l.prev_share),
        l.cell_row, l.col, l.old_text)

(***************************************************************************)
(* _handle_item_changed, up to the remote call.  The result names how the  *)
(* handler ended (`how`), the widget as it leaves it, and its local        *)
(* variables, which it still needs when it is blocked in update_fn.        *)
(***************************************************************************)
HasRunning(w) == get_uid(w.running_item) # ""

\* A handler that would take the table row for the pending position.
NoRunningOffset(w) == 0

\* `if running_uid != "": row -= 1`
RunningOffset(w) == IF HasRunning(w) THEN 1 ELSE 0

Handled(how, w, locals) == [how |-> how, w |-> w, locals |-> locals]

\* From build_update_payload on.
handle_payload(shown, l, payload) ==
    IF ~payload.ok
    THEN Handled("payload_error",
                 revert_pending_edit(shown, l.row + (IF HasRunning(shown) THEN 1 ELSE 0), l,
                                     \* f"Invalid value: {exc}", the exception's text
                                     \* left out
                                     "Invalid value"),
                 l)
    ELSE Handled("call", shown, [l EXCEPT !.payload = payload.v])

\* From `row_values = self._get_row_values(...)` on.
handle_shown(shown, l, plan_name, raw_item) ==
    handle_payload(shown, l,
        build_update_payload(raw_item,
            get_row_values(shown, l.row + (IF HasRunning(shown) THEN 1 ELSE 0)),
            {"name", "status"}, shown.plan_definitions, plan_name))

\* After apply_item_edit has answered `edit`; `edited` is the widget with
\* the raw record edited in place, l the locals with previous_display as the
\* edit in place leaves it.
handle_mutated(edited, l, column_id, plan_name, edit) ==
    \* ValueError out of apply_item_edit is not caught: the slot ends there
    IF edit.st = "raise" THEN Handled("coerce_error", edited, l)
    ELSE IF edit.st = "false"
    THEN Handled("cannot_edit",
                 revert_pending_edit(edited, l.row, l,
                                     "Cannot edit column '" \o column_id \o "'."),
                 l)
    ELSE handle_shown(ReplaceDisplay(edited, l.row + 1,
                                     prepare_display_item(edit.item, FALSE), l.row + 1),
                      l, plan_name, edit.item)

handle_applied(edited, l, column_id, plan_name, edit) ==
    handle_mutated(edited,
                   [l EXCEPT !.previous_display = edited.pending_items[l.row + 1]],
                   column_id, plan_name, edit)

\* From `previous_raw = deepcopy(raw_item)` on; cell is the edited cell.
handle_pending(w, column_id, new_text, cell, l) ==
    IF new_text = l.old_text THEN Handled("same_text", w, NoLocals)
    ELSE handle_applied(
             MutateRaw(w, l.row + 1,
                 apply_item_edit(l.previous_raw,
                                 IF cell.kw # "" THEN cell.kw ELSE column_id,
                                 new_text, extract_plan_name(l.previous_raw),
                                 w.plan_definitions, RoiKeyMap).item),
             l, column_id, extract_plan_name(l.previous_raw),
             apply_item_edit(l.previous_raw,
                             IF cell.kw # "" THEN cell.kw ELSE column_id,
                             new_text, extract_plan_name(l.previous_raw),
                             w.plan_definitions, RoiKeyMap))

\* After `row -= 1`: row is the position in the pending list, 0-based.
handle_row(w, cell_row, row, col, new_text) ==
    IF row < 0 THEN Handled("negative_row", w, NoLocals)
    ELSE IF row >= Len(w.pending_raw_items)
    THEN Handled("not_pending",
                 set_status_message(restore_cell_from_cache(w, cell_row, row, col),
                                    "Only queued plans can be edited."),
                 NoLocals)
    ELSE IF col > Len(w.columns) THEN Handled("no_column", w, NoLocals)
    ELSE handle_pending(w, w.columns[col], new_text, w.table[cell_row + 1].cells[col],
             [row |-> row, cell_row |-> cell_row, col |-> col,
              previous_raw |-> w.pending_raw_items[row + 1],
              previous_display |-> w.pending_items[row + 1],
              prev_share |-> w.shares[row + 1],
              old_text |-> format_queue_value(w.columns[col], w.pending_items[row + 1], row),
              uid |-> get_uid(w.pending_raw_items[row + 1]),
              payload |-> NoneV])

handle_item_changed(w, cell_row, col, new_text) ==
    IF w.controller = "none" THEN Handled("no_controller", w, NoLocals)
    ELSE handle_row(w, cell_row, cell_row - RunningOffset(w), col, new_text)

\* What update_fn(item=payload, replace=False) and api.item_move can do:
\* raise, or answer a mapping with "success" and "msg".
\* `given` tells whether the mapping holds the key "success".
Raised == [raised |-> TRUE, given |-> FALSE, success |-> FALSE, msg |-> ""]
Response(success, msg) ==
    [raised |-> FALSE, given |-> TRUE, success |-> success, msg |-> msg]
\* A mapping without "success" and without "msg"
NoSuccessKey == [raised |-> FALSE, given |-> FALSE, success |-> FALSE, msg |-> ""]
Responses == {Raised, Response(TRUE, ""), Response(FALSE, "Rejected"), NoSuccessKey}

\* `bool(response.get("success", False))`
SuccessOf(response) == response.given /\ response.success

\* How a remote call has ended, for the history.
Outcome(response) ==
    IF response.raised THEN "raised"
    ELSE IF ~response.given THEN "no_success"
    ELSE IF response.success THEN "ok" ELSE "rejected"

\* `message = response.get("msg", message) or message`
MessageOf(response, default) == IF response.msg # "" THEN response.msg ELSE default

\* _handle_item_changed from the return of update_fn to its end.
finish_item_changed(w, l, response) ==
    IF response.raised
    THEN revert_pending_edit(w, l.row, l, "Failed to submit queue item update.")
    ELSE IF ~SuccessOf(response)
    THEN restore_cell_from_value(
             ReplaceDisplay(
                 ReplaceRaw(set_status_message(w, MessageOf(response, "Queue item updated.")),
                            l.row + 1, l.previous_raw),
                 l.row + 1, l.previous_display,
                 IF l.prev_share = l.row + 1 THEN 0 ELSE l.prev_share),
             l.cell_row, l.col, l.old_text)
    ELSE refresh_queue_table(
             set_status_message(w, MessageOf(response, "Queue item updated.")))

(***************************************************************************)
(* Reordering                                                              *)
(***************************************************************************)
\* handle_local_pending_reorder.resolve_uid
resolve_uid(item) ==
    StrOf(Or(Or(extract_item_field(item, "item_uid"), extract_item_field(item, "uid")),
             Str("")))

\* list.pop(source) followed by list.insert(target, item), 0-based indices.
PopInsert(s, source, target) ==
    LET popped == SubSeq(s, 1, source) \o SubSeq(s, source + 2, Len(s))
    IN  SubSeq(popped, 1, target) \o <<s[source + 1]>>
        \o SubSeq(popped, target + 1, Len(popped))

\* shares after the pop and insert: the entries move with their displays and
\* name the raw records by their new positions.
MovedShares(old, order) ==
    [i \in 1..Len(order) |->
        IF old[order[i]] = 0 THEN 0
        ELSE CHOOSE n \in 1..Len(order) : order[n] = old[order[i]]]

\* A reorder that would move the display record only.
reorder_display_only(w, source_index, insert_at) ==
    refresh_queue_table(
        [w EXCEPT !.pending_items = PopInsert(w.pending_items, source_index, insert_at)])

\* The pop and the insert, and the refresh that follows.
reorder_to(w, source_index, insert_at) ==
    refresh_queue_table(
        [w EXCEPT !.pending_items = PopInsert(w.pending_items, source_index, insert_at),
                  !.pending_raw_items = PopInsert(w.pending_raw_items, source_index, insert_at),
                  !.shares = MovedShares(w.shares,
                                 PopInsert([i \in 1..Len(w.pending_items) |-> i],
                                           source_index, insert_at))])

\* From `target_index = max(0, min(...))` on.
reorder_from(w, source_index, clamped) ==
    IF source_index = clamped THEN w
    ELSE reorder_to(w, source_index,
                    IF source_index < clamped THEN clamped - 1 ELSE clamped)

\* After the search for uid; hits are the positions that hold it.
reorder_found(w, target_index, hits) ==
    IF hits = {} \/ target_index < 0 THEN w
    ELSE reorder_from(w, FirstOf(hits) - 1,
                      Max2(0, Min2(target_index, Len(w.pending_items) - 1)))

handle_local_pending_reorder(w, uid, target_index) ==
    IF w.pending_items = <<>> THEN w
    ELSE reorder_found(w, target_index,
             {i \in 1..Len(w.pending_items) : resolve_uid(w.pending_items[i]) = uid})

(***************************************************************************)
(* ui/queue_controls.py: QueueTableCursorController                        *)
(***************************************************************************)
\* The controller's fields after __init__; None is "" for a uid and -1 for a
\* row.  `active` tells that a drag is in progress, `emitted` is the last
\* message handed to emit_status.
InitDrag ==
    [pending_uids |-> <<>>, pending_row_count |-> 0, pending_drop_row |-> -1,
     pending_drag_uid |-> "", drag_enabled |-> FALSE, active |-> FALSE, emitted |-> "",
     \* _configure_table_widget: setDragDropMode(QAbstractItemView.NoDragDrop)
     mode |-> "NoDragDrop"]

\* _lookup_row_uid
lookup_row_uid(w, row) ==
    IF row < 0 \/ row >= Len(w.table) THEN ""
    ELSE IF w.columns = <<>> THEN ""
    ELSE w.table[row + 1].uid

\* _current_uid
current_uid(w) == IF w.current_row < 0 THEN "" ELSE lookup_row_uid(w, w.current_row)

\* _gather_selected_rows: the rows of the selection model and the current
\* row, whether it is selected or not.
gather_selected_rows(w, selection) ==
    selection \cup (IF w.current_row >= 0 THEN {w.current_row} ELSE {})

\* _lookup_row_uid_and_state: the uid and the state the cells of the row were
\* given when the table was built; no state without a uid.
lookup_row_state(w, row) ==
    IF lookup_row_uid(w, row) = "" THEN "" ELSE w.table[row + 1].state

\* selected_row_uids(pending_only=True), in the order of the rows
selected_row_uids(w, selection) ==
    LET rows == SelectSeq([i \in 1..Len(w.table) |-> i - 1],
                          LAMBDA row : /\ row \in gather_selected_rows(w, selection)
                                       /\ lookup_row_uid(w, row) # ""
                                       /\ lookup_row_state(w, row) = "pending")
    IN  [i \in 1..Len(rows) |-> lookup_row_uid(w, rows[i])]

\* _handle_delete_queue: the widget with its status message, and the uids
\* handed to api.delete_queue, <<>> when it is not called.
handle_delete_queue(w, selection) ==
    LET pending_uids == selected_row_uids(w, selection)
    IN  IF w.controller = "none"
        THEN [w |-> [w EXCEPT !.status_message = "Queue controller unavailable."],
              uids |-> <<>>]
        ELSE IF gather_selected_rows(w, selection) = {}
        THEN [w |-> [w EXCEPT !.status_message = "No queue rows selected."], uids |-> <<>>]
        ELSE IF pending_uids = <<>>
        THEN [w |-> [w EXCEPT !.status_message = "Only queued plans can be deleted."],
              uids |-> <<>>]
        ELSE [w |-> [w EXCEPT !.status_message =
                         "Delete request sent for " \o IntText(Len(pending_uids))
                         \o (IF Len(pending_uids) = 1 THEN " queued plan."
                             ELSE " queued plans.")],
              uids |-> pending_uids]

\* _capture_pending_drag: the current row is the focused row.
capture_pending_drag(w) ==
    LET row == w.current_row
    IN  IF row < 0 \/ row >= w.drag.pending_row_count
        THEN [w EXCEPT !.drag.pending_drag_uid = ""]
        ELSE [w EXCEPT !.drag.pending_drag_uid = lookup_row_uid(w, row)]

\* _resolve_drop_row; -1 for None
resolve_drop_row(d) ==
    IF d.pending_row_count = 0 THEN -1
    ELSE IF d.pending_drop_row = -1 THEN -1
    ELSE Max2(0, Min2(d.pending_drop_row, d.pending_row_count - 1))

reset_pending_state(w) ==
    [w EXCEPT !.drag.pending_drop_row = -1, !.drag.pending_drag_uid = ""]

emit_status(w, message) ==
    IF message = "" THEN w ELSE [w EXCEPT !.drag.emitted = message]

\* _process_pending_reorder up to api.item_move; drop_row is what
\* _derive_drop_row answers for the drop event.
process_pending_reorder(w, drop_row) ==
    LET w1 == [w EXCEPT !.drag.pending_drop_row = drop_row]
        target_row == resolve_drop_row(w1.drag)
        uid == IF w1.drag.pending_drag_uid # "" THEN w1.drag.pending_drag_uid
               ELSE current_uid(w1)
    IN  IF ~w.drag.drag_enabled
        THEN [how |-> "disabled", w |-> reset_pending_state(w), uid |-> "", target_row |-> -1]
        ELSE IF target_row = -1
        THEN [how |-> "no_target",
              w |-> reset_pending_state(
                        emit_status(w1, "Drop location must stay within pending queue.")),
              uid |-> "", target_row |-> -1]
        ELSE IF uid = ""
        THEN [how |-> "no_uid",
              w |-> reset_pending_state(
                        emit_status(w1, "Unable to determine which plan was dragged.")),
              uid |-> "", target_row |-> target_row]
        ELSE IF w.controller = "none"
        THEN [how |-> "no_controller",
              w |-> reset_pending_state(emit_status(w1, "Queue controller unavailable.")),
              uid |-> uid, target_row |-> target_row]
        ELSE [how |-> "call", w |-> w1, uid |-> uid, target_row |-> target_row]


\* A handler that would not read `success` from the response.
MoveAlwaysSucceeded(response) == TRUE

\* `success` as _process_pending_reorder reads it from the response
MoveSucceeded(response) == SuccessOf(response)

\* _process_pending_reorder from the return of api.item_move to its end.
finish_pending_reorder(w, uid, target_row, response) ==
    IF response.raised
    THEN reset_pending_state(emit_status(w, "Error sending queue reorder request."))
    ELSE IF MoveSucceeded(response)
    THEN reset_pending_state(
             handle_local_pending_reorder(
                 emit_status([w EXCEPT !.current_row = target_row],
                             MessageOf(response, "Queue reorder request completed.")),
                 uid, target_row))
    ELSE reset_pending_state(
             emit_status([w EXCEPT !.current_row = target_row],
                         MessageOf(response, "Queue reorder request completed.")))

(***************************************************************************)
(* The UI thread, the history variables and the initial state              *)
(***************************************************************************)
Idle == [pc |-> "idle", locals |-> NoLocals, uid |-> "", target_row |-> -1,
         cell_row |-> -1, pre_raw |-> <<>>, pre_items |-> <<>>, after |-> ""]

\* A remote call that would not block the UI thread: input is handled, and
\* queued slots run, while a handler waits for the response.
InputWhileBlocked == TRUE
DeliverWhileBlocked == TRUE

\* The UI thread is in its event loop: it can run a handler for user input.
CanHandleInput == ui.pc = "idle"
\* queueUpdated is emitted by the poll thread and connected to a slot of the
\* widget, which lives in the UI thread: the connection is queued, and the
\* slot runs when the UI thread is back in its event loop.
CanDeliver == ui.pc = "idle"

\* The behaviours of the model hold at most MaxInputs polls, edits and drags.
WithinBudget == n_polls + n_edits + n_drags < MaxInputs

\* The state a row has by its position in the collections as they are now.
PositionState(w, cell_row) ==
    LET row == cell_row - (IF get_uid(w.running_item) # "" THEN 1 ELSE 0)
    IN  IF row < 0 THEN "running"
        ELSE IF row < Len(w.pending_raw_items) THEN "pending"
        ELSE "completed"

\* What the last handler of the UI thread did, and the collections as they
\* were when it started.
Last(op, how, cell_row, row_state, uid, target, sent, pre_raw, pre_items) ==
    [op |-> op, how |-> how, cell_row |-> cell_row, row_state |-> row_state,
     uid |-> uid, target |-> target, sent |-> sent,
     pre_raw |-> pre_raw, pre_items |-> pre_items,
     pre_running |-> running_item, pre_completed |-> completed_items,
     snapshot |-> NoSnapshot, stale |-> last.stale]
\* `snapshot` is the snapshot the handler has applied, if it has applied one;
\* `stale` is the number of queued snapshots that the poll thread had
\* emitted when the last edit or move the remote has accepted was sent.
NoLast == [op |-> "none", how |-> "", cell_row |-> -1, row_state |-> "", uid |-> "",
           target |-> -1, sent |-> FALSE, pre_raw |-> <<>>, pre_items |-> <<>>,
           pre_running |-> EmptyDict, pre_completed |-> <<>>, snapshot |-> NoSnapshot,
           stale |-> 0]

Command(cmd, uid, arg) == [cmd |-> cmd, uid |-> uid, arg |-> arg]

\* QServerController.__init__: no thread, _poll_stop clear
NoThread == [pc |-> "none", stop |-> FALSE, handle |-> FALSE, stopped |-> FALSE]

\* start_polling
start_polling(t) ==
    IF t.handle /\ t.pc # "none" THEN t
    ELSE [pc |-> "test", stop |-> FALSE, handle |-> TRUE, stopped |-> FALSE]

\* No helper has been called.
NoCall == [fn |-> "none"]

\* The state after construction; c is the call of a record helper that the
\* behaviour carries out, NoCall in the sessions of the widget.
Start(c) ==
    /\ controller = "none"
    /\ plan_definitions = <<>>
    /\ plan_param_cache = <<>>
    /\ pending_raw_items = <<>>
    /\ pending_items = <<>>
    /\ shares = <<>>
    /\ completed_items = <<>>
    /\ running_item = EmptyDict
    /\ columns = <<>>
    /\ table = <<>>
    /\ current_row = -1
    /\ editor = NoEditor
    /\ pending_table_refresh = FALSE
    /\ timers = 0
    /\ status_message = ""
    /\ drag = InitDrag
    /\ ui = Idle
    /\ requests = <<>>
    /\ ui_queue = <<>>
    /\ polling = FALSE
    /\ n_polls = 0
    /\ n_edits = 0
    /\ n_drags = 0
    /\ last = NoLast
    /\ drag_start_uid = ""
    /\ views = <<>>
    /\ poll_thread = NoThread
    /\ call = c

Init == Start(NoCall)

(***************************************************************************)
(* Actions                                                                 *)
(***************************************************************************)
\* make_qserver_monitor: the widget is built with the controller, which runs
\* set_controller with fetch_snapshot answering `snapshot`, and the factory
\* then calls controller.start_polling().
SetController(snapshot) ==
    /\ CanHandleInput
    /\ controller = "none"
    /\ SetWidget(set_controller(Widget, "ctrl", <<snapshot>>))
    /\ last' = [NoLast EXCEPT !.op = "snapshot", !.how = "fetch", !.snapshot = snapshot]
    /\ polling' = TRUE
    /\ poll_thread' = start_polling(poll_thread)
    /\ UNCHANGED <<editor, ui, requests, ui_queue, n_polls, n_edits, n_drags,
                   drag_start_uid, call>>

\* QServerController._poll in the poll thread: the snapshot is emitted and
\* queued for the UI thread.
Poll(snapshot) ==
    /\ polling
    /\ n_polls < MaxPolls
    /\ WithinBudget
    /\ Len(ui_queue) < MaxQueued
    /\ ui_queue' = Append(ui_queue, snapshot)
    /\ n_polls' = n_polls + 1
    /\ views' = <<>>
    /\ UNCHANGED <<controller, plan_definitions, plan_param_cache, pending_raw_items,
                   pending_items, shares, completed_items, running_item, columns, table,
                   current_row, editor, pending_table_refresh, timers, status_message,
                   drag, ui, requests, polling, n_edits, n_drags,
                   last, drag_start_uid, poll_thread, call>>

\* _handle_queue_updated, run by the UI thread's event loop
DeliverSnapshot ==
    /\ CanDeliver
    /\ ui_queue # <<>>
    /\ SetWidget(handle_queue_updated(Widget, Head(ui_queue)))
    /\ ui_queue' = Tail(ui_queue)
    /\ last' = [Last("snapshot", "poll", -1, "", "", -1, FALSE,
                     pending_raw_items, pending_items)
                    EXCEPT !.snapshot = Head(ui_queue),
                           !.stale = Max2(last.stale - 1, 0)]
    /\ UNCHANGED <<editor, ui, requests, polling, n_polls, n_edits, n_drags,
                   drag_start_uid, poll_thread, call>>

\* _attempt_refresh_after_edit, when a single-shot timer fires
TimerFire ==
    /\ CanHandleInput
    /\ timers > 0
    /\ IF editor.open
       THEN \* re-armed: one timer replaces the other
            /\ views' = <<>>
            /\ UNCHANGED <<controller, plan_definitions, plan_param_cache,
                           pending_raw_items, pending_items, shares, completed_items,
                           running_item, columns, table, current_row,
                           pending_table_refresh, timers, status_message, drag>>
       ELSE LET w == [Widget EXCEPT !.timers = timers - 1]
            IN  SetWidget(IF pending_table_refresh
                          THEN rebuild_queue_table([w EXCEPT !.pending_table_refresh = FALSE])
                          ELSE w)
    /\ UNCHANGED <<editor, ui, requests, ui_queue, polling, n_polls, n_edits,
                   n_drags, last, drag_start_uid, poll_thread, call>>

\* The user opens the editor of a cell; only the cells of rows built as
\* pending carry Qt.ItemIsEditable.
OpenEditor(row, col) ==
    /\ CanHandleInput
    /\ ~editor.open
    /\ ~drag.active
    /\ n_edits < MaxEdits
    /\ WithinBudget
    /\ row \in 0..(Len(table) - 1)
    /\ col \in 1..Len(columns)
    /\ columns[col] \in EditColumns
    /\ table[row + 1].state = "pending"
    /\ editor' = [open |-> TRUE, row |-> row, col |-> col, uid |-> table[row + 1].uid]
    /\ current_row' = row
    /\ views' = <<>>
    /\ UNCHANGED <<controller, plan_definitions, plan_param_cache, pending_raw_items,
                   pending_items, shares, completed_items, running_item, columns, table,
                   pending_table_refresh, timers, status_message, drag, ui, requests,
                   ui_queue, polling, n_polls, n_edits, n_drags, last,
                   drag_start_uid, poll_thread, call>>

\* The user leaves the editor without committing.
CancelEditor ==
    /\ CanHandleInput
    /\ editor.open
    /\ editor' = NoEditor
    /\ views' = <<>>
    /\ UNCHANGED <<controller, plan_definitions, plan_param_cache, pending_raw_items,
                   pending_items, shares, completed_items, running_item, columns, table,
                   current_row, pending_table_refresh, timers, status_message, drag, ui,
                   requests, ui_queue, polling, n_polls, n_edits, n_drags, last,
                   drag_start_uid, poll_thread, call>>

\* The end of the step in which _handle_item_changed has done h.
Committed(h, text) ==
    /\ SetWidget(h.w)
    /\ IF h.how = "call"
       THEN /\ ui' = [pc |-> "update", locals |-> h.locals, uid |-> h.locals.uid,
                      target_row |-> -1, cell_row |-> editor.row,
                      pre_raw |-> pending_raw_items, pre_items |-> pending_items,
                      \* the uid of the edit answered just before this one
                      after |-> IF last.op = "edit" /\ last.sent THEN last.uid ELSE ""]
            /\ requests' = Append(requests, Command("update", h.locals.uid, text))
            /\ editor' = editor
       ELSE /\ ui' = ui
            /\ requests' = requests
            /\ editor' = NoEditor
    /\ last' = [Last("edit", h.how, editor.row, PositionState(Widget, editor.row),
                     h.locals.uid, -1, h.how = "call", pending_raw_items, pending_items)
                    EXCEPT !.stale = IF h.how = "call" THEN Len(ui_queue) ELSE last.stale]

\* The user commits `text`: the cell takes the text, itemChanged runs
\* _handle_item_changed while the view is still in EditingState, and the
\* editor closes when the handler has returned.
CommitEditor(text) ==
    /\ CanHandleInput
    /\ editor.open
    /\ text # table[editor.row + 1].cells[editor.col].text
    /\ Committed(handle_item_changed(
                     [Widget EXCEPT !.table[editor.row + 1].cells[editor.col].text = text],
                     editor.row, editor.col, text),
                 text)
    /\ n_edits' = n_edits + 1
    /\ UNCHANGED <<ui_queue, polling, n_polls, n_drags, drag_start_uid, poll_thread, call>>

\* update_fn returns or raises; _handle_item_changed runs to its end and the
\* editor closes.
EditReturn(response) ==
    /\ ui.pc = "update"
    /\ SetWidget(finish_item_changed(Widget, ui.locals, response))
    /\ requests' = SelectSeq(requests, LAMBDA c : c.cmd # "update" \/ c.uid # ui.uid)
    /\ editor' = NoEditor
    /\ ui' = Idle
    /\ last' = [Last("edit",
                     Outcome(response),
                     ui.cell_row, "pending", ui.uid, -1, TRUE, ui.pre_raw, ui.pre_items)
                    EXCEPT !.stale = IF Outcome(response) = "ok" THEN last.stale ELSE 0]
    /\ UNCHANGED <<ui_queue, polling, n_polls, n_edits, n_drags, drag_start_uid, poll_thread, call>>

\* The user presses on a row and starts to drag it: the row becomes the
\* current row and the viewport receives DragEnter.  Only the cells of rows
\* built as pending carry Qt.ItemIsDragEnabled, and the table starts drags
\* only in InternalMove mode.
DragEnter(row) ==
    /\ CanHandleInput
    /\ ~editor.open
    /\ ~drag.active
    /\ drag.drag_enabled
    /\ n_drags < MaxDrags
    /\ WithinBudget
    /\ row \in 0..(Len(table) - 1)
    /\ table[row + 1].state = "pending"
    /\ SetWidget([capture_pending_drag([Widget EXCEPT !.current_row = row])
                     EXCEPT !.drag.active = TRUE])
    /\ drag_start_uid' = table[row + 1].uid
    /\ n_drags' = n_drags + 1
    /\ UNCHANGED <<editor, ui, requests, ui_queue, polling, n_polls, n_edits,
                   last, poll_thread, call>>

\* The viewport receives DragMove while the drag goes on.
DragMove ==
    /\ CanHandleInput
    /\ drag.active
    /\ SetWidget(capture_pending_drag(Widget))
    /\ UNCHANGED <<editor, ui, requests, ui_queue, polling, n_polls, n_edits,
                   n_drags, last, drag_start_uid, poll_thread, call>>

\* The end of the step in which _process_pending_reorder has done p.
Dropped(p) ==
    IF p.how = "call"
    THEN /\ SetWidget(p.w)
         /\ ui' = [pc |-> "move", locals |-> NoLocals, uid |-> p.uid,
                   target_row |-> p.target_row, cell_row |-> -1,
                   pre_raw |-> pending_raw_items, pre_items |-> pending_items,
                   after |-> ""]
         /\ requests' = Append(requests, Command("move", p.uid, IntText(p.target_row)))
         /\ last' = [Last("move", "call", -1, "", p.uid, p.target_row, TRUE,
                          pending_raw_items, pending_items)
                         EXCEPT !.stale = Len(ui_queue)]
    ELSE /\ SetWidget([p.w EXCEPT !.drag.active = FALSE])
         /\ UNCHANGED <<ui, requests>>
         /\ last' = Last("move", p.how, -1, "", p.uid, p.target_row, FALSE,
                         pending_raw_items, pending_items)

\* The viewport receives Drop; drop_row is the row under the cursor, or -1.
Drop(drop_row) ==
    /\ CanHandleInput
    /\ drag.active
    /\ drop_row \in -1..(Len(table) - 1)
    /\ Dropped(process_pending_reorder(Widget, drop_row))
    /\ UNCHANGED <<editor, ui_queue, polling, n_polls, n_edits, n_drags, drag_start_uid, poll_thread, call>>

\* api.item_move returns or raises; _process_pending_reorder runs to its end.
MoveReturn(response) ==
    /\ ui.pc = "move"
    /\ SetWidget([finish_pending_reorder(Widget, ui.uid, ui.target_row, response)
                     EXCEPT !.drag.active = FALSE])
    /\ requests' = SelectSeq(requests, LAMBDA c : c.cmd # "move" \/ c.uid # ui.uid)
    /\ ui' = Idle
    /\ last' = [Last("move",
                     Outcome(response),
                     -1, "", ui.uid, ui.target_row, TRUE, ui.pre_raw, ui.pre_items)
                    EXCEPT !.stale = IF Outcome(response) = "ok" THEN last.stale ELSE 0]
    /\ UNCHANGED <<editor, ui_queue, polling, n_polls, n_edits, n_drags,
                   drag_start_uid, poll_thread, call>>

(***************************************************************************)
(* The poll thread step by step, and stop_polling                          *)
(***************************************************************************)
\* The fields of the widget, which the poll thread does not touch.
widget_vars ==
    <<controller, plan_definitions, plan_param_cache, pending_raw_items, pending_items,
      shares, completed_items, running_item, columns, table, current_row, editor,
      pending_table_refresh, timers, status_message, drag>>

\* The thread leaves _target: `finally: self._poll_thread = None`.
Ended(t) == [t EXCEPT !.pc = "none", !.handle = FALSE]

\* _target: `while not self._poll_stop.is_set()`, then into self._poll()
PollTest ==
    /\ poll_thread.pc = "test"
    /\ IF poll_thread.stop
       THEN poll_thread' = Ended(poll_thread) /\ polling' = FALSE
       ELSE poll_thread' = [poll_thread EXCEPT !.pc = "call"] /\ polling' = polling
    /\ views' = <<>>
    /\ UNCHANGED <<widget_vars, ui, requests, ui_queue, n_polls, n_edits, n_drags, last,
                   drag_start_uid, call>>

\* _poll: get_status answers `connected`, and when it is true queue_get and
\* history_get answer; a snapshot is emitted and queued for the UI thread.
\* The thread goes on to `self._poll_stop.wait(wait_seconds)`.
PollAnswer(connected, queue_response, history_response) ==
    /\ poll_thread.pc = "call"
    /\ IF connected /\ ~fetch_queue(queue_response, history_response).none
       THEN /\ Len(ui_queue) < MaxQueued
            /\ ui_queue' = Append(ui_queue,
                                  fetch_queue(queue_response, history_response).snapshot)
       ELSE ui_queue' = ui_queue
    /\ poll_thread' = [poll_thread EXCEPT !.pc = "wait"]
    /\ views' = <<>>
    /\ UNCHANGED <<widget_vars, ui, requests, polling, n_polls, n_edits, n_drags, last,
                   drag_start_uid, call>>

\* `if self._poll_stop.wait(wait_seconds): break`: the wait ends at once when
\* the event is set, and after the poll interval otherwise.
PollWait ==
    /\ poll_thread.pc = "wait"
    /\ IF poll_thread.stop
       THEN poll_thread' = Ended(poll_thread) /\ polling' = FALSE
       ELSE poll_thread' = [poll_thread EXCEPT !.pc = "test"] /\ polling' = polling
    /\ views' = <<>>
    /\ UNCHANGED <<widget_vars, ui, requests, ui_queue, n_polls, n_edits, n_drags, last,
                   drag_start_uid, call>>

\* stop_polling, called in the UI thread, up to `thread.join(timeout=1.0)`;
\* it is called once in a behaviour.
StopPolling ==
    /\ CanHandleInput
    /\ controller # "none"
    /\ ~poll_thread.stopped
    /\ IF poll_thread.handle /\ poll_thread.pc # "none"
       THEN /\ poll_thread' = [poll_thread EXCEPT !.stop = TRUE]
            /\ ui' = [Idle EXCEPT !.pc = "join"]
       ELSE /\ poll_thread' = [poll_thread EXCEPT !.handle = FALSE, !.stop = FALSE,
                                                   !.stopped = TRUE]
            /\ ui' = ui
    /\ views' = <<>>
    /\ UNCHANGED <<widget_vars, requests, ui_queue, polling, n_polls, n_edits, n_drags,
                   last, drag_start_uid, call>>

\* thread.join(timeout=1.0) returns, because the thread has ended or because
\* the second has passed while the thread is in a remote call that takes
\* longer; then `self._poll_thread = None` and `self._poll_stop.clear()`.
StopJoined ==
    /\ ui.pc = "join"
    /\ poll_thread.pc \in {"none", "call"}
    /\ poll_thread' = [poll_thread EXCEPT !.handle = FALSE, !.stop = FALSE,
                                          !.stopped = TRUE]
    /\ ui' = Idle
    /\ views' = <<>>
    /\ UNCHANGED <<widget_vars, requests, ui_queue, polling, n_polls, n_edits, n_drags,
                   last, drag_start_uid, call>>

(***************************************************************************)
(* Calls of the record helpers of core/queue_item_utils.py                 *)
(***************************************************************************)
\* A key that a record does not hold.
Absent == [t |-> "absent", s |-> ""]
Entry(k, v) == IF v = Absent THEN <<>> ELSE <<KV(k, v)>>

\* The three places a queue record holds a field in: at top level, under
\* "kwargs", and under the "kwargs" of the record wrapped in "item".
Shapes == {"top", "kwargs", "item.kwargs"}
ShapedRecord(shape, k, v) ==
    CASE shape = "top" -> Dict(<<KV("name", Str("scan")), KV(k, v)>>)
      [] shape = "kwargs" ->
           Dict(<<KV("name", Str("scan")), KV("kwargs", Dict(<<KV(k, v)>>))>>)
      [] OTHER ->
           Dict(<<KV("item", Dict(<<KV("name", Str("scan")),
                                    KV("kwargs", Dict(<<KV(k, v)>>))>>))>>)

\* The calls extract_item_field(item, key) of the model.
ExtractCalls ==
    {[fn |-> "extract_item_field", shape |-> shape, key |-> k, value |-> v,
      item |-> ShapedRecord(shape, k, v), done |-> FALSE, out |-> NoneV]
     : shape \in Shapes, k \in {"dwell", "note", "item_uid"},
       v \in {FloatV("1.5"), Str("hi"), IntV("3")}}

\* A record for the column "width": kwargs holds dwell and what is given for
\* the keys "width" and "roi_width"; the wrapped record's kwargs and the
\* metadata hold what is given for "roi_width".
LookupRecord(width, roi_width, nested, metadata) ==
    Dict(<<KV("name", Str("scan")),
           KV("kwargs", Dict(<<KV("dwell", FloatV("1.5"))>> \o Entry("width", width)
                             \o Entry("roi_width", roi_width))),
           KV("item_uid", Str("A"))>>
         \o Entry("item", IF nested = Absent THEN Absent
                          ELSE Dict(<<KV("kwargs", Dict(<<KV("roi_width", nested)>>))>>))
         \o Entry("metadata", IF metadata = Absent THEN Absent
                              ELSE Dict(<<KV("roi_width", metadata)>>)))

\* The calls lookup_roi_value("width", item, roi_key_map, include_key=True,
\* available_params=...) of the model.
LookupCalls ==
    {[fn |-> "lookup_roi_value",
      item |-> LookupRecord(width, roi_width, nested, metadata),
      available_params |-> available_params, done |-> FALSE, out |-> RoiNone]
     : width \in {Absent, NoneV, IntV("3")},
       roi_width \in {Absent, NoneV, IntV("7")},
       nested \in {Absent, IntV("12")},
       metadata \in {Absent, IntV("1")},
       available_params \in {AvailableParams(FALSE, {}), AvailableParams(TRUE, {}),
                             AvailableParams(TRUE, {"dwell", "roi_width"}),
                             AvailableParams(TRUE, {"width", "roi_width"})}}

\* A flat record of plan `name` whose kwargs hold dwell and what is given
\* for the keys "width", "roi_width" and "note".
EditRecord(name, width, roi_width, note) ==
    Dict(<<KV("name", Str(name)),
           KV("kwargs", Dict(<<KV("dwell", FloatV("1.5"))>> \o Entry("width", width)
                             \o Entry("roi_width", roi_width) \o Entry("note", note))),
           KV("item_uid", Str("A"))>>)

\* The queued records whose cells are edited: the flat records, of the plan
\* "scan" and of a plan the catalog does not hold, and the records B and C
\* of the remote.
EditRecords ==
    {EditRecord(name, width, roi_width, note)
     : name \in {"scan", "count"}, width \in {Absent, IntV("3")},
       roi_width \in {Absent, IntV("7")}, note \in {Absent, Str("hi")}}
    \cup {RecordOf("B"), RecordOf("C")}

\* The edits of the model: the queue holds `item` alone, and the user commits
\* `text` in the cell of `column` of its row.
EditCalls ==
    {[fn |-> "edit", item |-> item, column |-> column, text |-> text, done |-> FALSE,
      how |-> "", raw |-> NoneV, row_values |-> <<>>, payload |-> NoneV]
     : item \in EditRecords, column \in {"dwell", "width"},
       text \in {"7", "abc", ""}}

\* The widget with a controller, showing the queue `pending`, a cell editor
\* open.
Showing(pending) ==
    [apply_snapshot(load_plan_definitions([Widget EXCEPT !.controller = "ctrl"]),
                    [NoSnapshot EXCEPT !.pending = pending])
     EXCEPT !.editing = TRUE]

\* The position of a column id in self._columns.
ColumnOf(w, column) == CHOOSE c \in 1..Len(w.columns) : w.columns[c] = column

\* The cell takes the text and itemChanged runs _handle_item_changed.
Edited(w, col, text) ==
    handle_item_changed([w EXCEPT !.table[1].cells[col].text = text], 0, col, text)

\* The records apply_item_edit is called on: those above, and B with
\* roi_width held under "metadata" next to the wrapped record.
ApplyRecords ==
    EditRecords \cup {Put(RecordOf("B"), "metadata", Dict(<<KV("roi_width", IntV("3"))>>))}

\* The calls apply_item_edit(item, column_id, text_value, plan_name=...,
\* plan_definitions=..., roi_key_map=...) of the model.
ApplyCalls ==
    {[fn |-> "apply_item_edit", item |-> item, column |-> column, text |-> text,
      done |-> FALSE, st |-> "", out |-> NoneV]
     : item \in ApplyRecords, column \in {"dwell", "width", "note"},
       text \in {"7", "abc"}}

\* The alias maps the widget is built with: the one of the sessions, one
\* that also names "title" and "note" as the aliases of a column, and none.
RoiMaps ==
    {RoiKeyMap,
     <<KV("comments", <<"title", "note">>), KV("width", <<"width", "roi_width">>)>>,
     <<>>}

\* The records _ensure_columns sees: the display records of A and B, B as
\* the remote holds it, and a record whose kwargs hold note, title and dwell.
ColumnRecords ==
    {prepare_display_item(RecordOf("A"), FALSE),
     prepare_display_item(RecordOf("B"), FALSE),
     RecordOf("B"),
     Dict(<<KV("name", Str("count")),
            KV("kwargs", Dict(<<KV("note", Str("hi")), KV("title", Str("t")),
                                KV("dwell", FloatV("1.5"))>>)),
            KV("item_uid", Str("D"))>>)}

\* The visible records of a rebuild: at most two.
ColumnQueues ==
    {<<>>} \cup {<<a>> : a \in ColumnRecords}
    \cup {<<a, b>> : a \in ColumnRecords, b \in ColumnRecords}

\* Two runs of _ensure_columns in a widget built with roi_key_map: the first
\* on the queue `first`, the second on the queue `second`.
EnsureCalls ==
    {[fn |-> "ensure_columns", roi_key_map |-> roi_key_map, first |-> first,
      second |-> second, done |-> FALSE, columns |-> <<>>, replaced |-> FALSE,
      out |-> <<>>]
     : roi_key_map \in RoiMaps, first \in ColumnQueues, second \in ColumnQueues}

\* The pending records the drag state is computed for: A, B, whose uid is
\* in the wrapped record, a record whose uid is under "uid", a record
\* without a uid and a record whose item_uid is the empty string.
DragRecords ==
    {RecordOf("A"), RecordOf("B"),
     Dict(<<KV("name", Str("scan")), KV("uid", Str("D"))>>),
     Dict(<<KV("name", Str("scan")), KV("kwargs", Dict(<<KV("dwell", FloatV("1.5"))>>))>>),
     Dict(<<KV("name", Str("scan")), KV("item_uid", Str(""))>>)}

DragQueues ==
    {<<>>} \cup {<<a>> : a \in DragRecords}
    \cup {<<a, b>> : a \in DragRecords, b \in DragRecords}
    \cup {<<a, b, c>> : a \in {RecordOf("A")}, b \in DragRecords, c \in DragRecords}

\* The calls of the model on the drag controller: it has synced the queue
\* `first` under the controller `before`; then set_controller(controller)
\* and sync_pending_items(pending) are called.
DragCalls ==
    {[fn |-> "sync_pending_items", before |-> before, first |-> first,
      controller |-> ctrl, pending |-> pending, done |-> FALSE,
      set |-> InitDrag, out |-> InitDrag]
     : before \in {"none", "ctrl"}, first \in {<<>>, <<RecordOf("A"), RecordOf("B")>>},
       ctrl \in {"none", "ctrl"}, pending \in DragQueues}

\* The calls of the model on PlanParameter.coerce: a parameter with or
\* without type_name and default, and a text.
CoerceCalls ==
    {[fn |-> "coerce", parameter |-> PlanParameter("p", default, type_name),
      text |-> text, done |-> FALSE, out |-> Ok(NoneV)]
     : default \in {NoneV, BoolV("True"), IntV("3"), FloatV("1.5"), Str("x")},
       type_name \in {"", "int", "float", "Float", "bool", "str", "list"},
       text \in {"", " ", "None", "7", "1.5", "abc", "True", "yes", "0", "off"}}

\* The calls that write cells: the widget shows `first`; then a snapshot is
\* applied ("poll"), the table is rebuilt ("rebuild"), a cell is restored
\* from the cache ("restore"), or the user commits `text` in a cell and the
\* remote answers `response` ("edit").
WriteSnapshots ==
    {[NoSnapshot EXCEPT !.pending = <<RecordOf("A"), RecordOf("B")>>, !.running = r]
     : r \in {NoneV, RecordOf("C")}}
WriteCalls ==
    {[fn |-> "writes", op |-> op, first |-> first, cell_row |-> cell_row, text |-> text,
      response |-> response, ready |-> FALSE, committed |-> FALSE, done |-> FALSE,
      sent |-> FALSE, before |-> NoneV, handled |-> NoneV, after |-> NoneV]
     : op \in {"poll", "rebuild", "restore", "edit"}, first \in WriteSnapshots,
       cell_row \in 0..2, text \in {"7", "abc"},
       response \in {Raised, Response(TRUE, ""), Response(FALSE, "Rejected")}}

\* A record of the queue with or without a status, a result and a plan
\* parameter called "status".
StatusRecord(status, result, parameter) ==
    Dict(<<KV("name", Str("scan")),
           KV("kwargs", Dict(<<KV("dwell", FloatV("1.5"))>> \o Entry("status", parameter))),
           KV("item_uid", Str("A"))>>
         \o Entry("status", status) \o Entry("result", result))

\* The calls of _rebuild_queue_table on resolve_queue_value for the status
\* column of one row: the row is the running one, a pending one or a
\* completed one, and shows the display record of `item`.
StatusCalls ==
    {[fn |-> "status", item |-> StatusRecord(status, result, parameter), state |-> state,
      done |-> FALSE, shown |-> NoneV, out |-> ""]
     : status \in {Absent, NoneV, Str("queued")},
       result \in {Absent, NoneV, EmptyDict,
                   Dict(<<KV("exit_status", Str("failed"))>>),
                   Dict(<<KV("exit_status", NoneV), KV("scan_ids", List(<<IntV("7")>>))>>)},
       parameter \in {Absent, Str("fast")},
       state \in {"running", "pending", "completed"}}

\* The snapshots of the calls on the caches: an empty queue, A, and A as a
\* record of the plan "count", which is not among the allowed plans.
CacheSnapshots ==
    {[NoSnapshot EXCEPT !.pending = p]
     : p \in {<<>>, <<RecordOf("A")>>, <<Put(RecordOf("A"), "name", Str("count"))>>}}

\* The calls of the model on the caches.  The widget has been built without
\* a controller and set_controller("ctrl") has run, the controller doing
\* first_answer and fetch_snapshot answering `first`; then `op` is called:
\* set_controller(ctrl) with fetch_snapshot answering `fetched`, or
\* _handle_queue_updated(fetched[1]).
CacheCalls ==
    {[fn |-> "caches", op |-> op, first_answer |-> first_answer, first |-> first,
      ctrl |-> ctrl, answer |-> answer, fetched |-> fetched, ready |-> FALSE, done |-> FALSE,
      before |-> <<>>, after |-> <<>>]
     : op \in {"set_controller", "handle_queue_updated"}, first_answer \in PlanAnswers,
       first \in CacheSnapshots, ctrl \in {"none", "ctrl", "other"},
       answer \in PlanAnswers,
       fetched \in {<<>>} \cup {<<f>> : f \in CacheSnapshots}}
    \ {c \in [fn : {"caches"}, op : {"handle_queue_updated"}, first_answer : PlanAnswers,
               first : CacheSnapshots, ctrl : {"none", "ctrl", "other"},
               answer : PlanAnswers, fetched : {<<>>} \cup {<<f>> : f \in CacheSnapshots},
               ready : {FALSE}, done : {FALSE}, before : {<<>>}, after : {<<>>}]
        : c.fetched = <<>> \/ c.ctrl # "ctrl"}

\* The locations of a record: the paths of keys that lead to a value that is
\* not a mapping, each with its value.
RECURSIVE Leaves(_, _)
Leaves(v, path) ==
    IF IsDict(v)
    THEN UNION {Leaves(v.d[i].v, Append(path, v.d[i].k)) : i \in 1..Len(v.d)}
    ELSE {<<path, v>>}

\* Everything but `call`.
session_vars ==
    <<widget_vars, ui, requests, ui_queue, polling, n_polls, n_edits, n_drags, last,
      drag_start_uid, views, poll_thread>>

ReturnExtract ==
    /\ call.fn = "extract_item_field"
    /\ ~call.done
    /\ call' = [call EXCEPT !.done = TRUE,
                            !.out = extract_item_field(call.item, call.key)]
    /\ UNCHANGED session_vars

ReturnLookup ==
    /\ call.fn = "lookup_roi_value"
    /\ ~call.done
    /\ call' = [call EXCEPT !.done = TRUE,
                            !.out = lookup_roi_value("width", call.item, RoiKeyMap,
                                                     call.available_params)]
    /\ UNCHANGED session_vars

\* Both runs of _ensure_columns: `columns` is self._columns after the first
\* run, `out` after the second, `replaced` whether the second run has
\* assigned self._columns.
ReturnEnsure ==
    /\ call.fn = "ensure_columns"
    /\ ~call.done
    /\ LET first == EnsureColumnsFor(call.roi_key_map, <<>>, call.first)
           second == EnsureColumnsFor(call.roi_key_map, first.columns, call.second)
       IN  call' = [call EXCEPT !.done = TRUE, !.columns = first.columns,
                                !.replaced = second.replaced, !.out = second.columns]
    /\ UNCHANGED session_vars

\* `set` is the drag controller after set_controller, `out` after
\* sync_pending_items.
ReturnSync ==
    /\ call.fn = "sync_pending_items"
    /\ ~call.done
    /\ LET d0 == sync_pending_items(update_drag_state(InitDrag, call.before),
                                    call.before, call.first)
           d1 == update_drag_state(d0, call.controller)
       IN  call' = [call EXCEPT !.done = TRUE, !.set = d1,
                                !.out = sync_pending_items(d1, call.controller,
                                                           call.pending)]
    /\ UNCHANGED session_vars

ReturnCoerce ==
    /\ call.fn = "coerce"
    /\ ~call.done
    /\ call' = [call EXCEPT !.done = TRUE, !.out = coerce(call.parameter, call.text)]
    /\ UNCHANGED session_vars

\* The display record of the row is the one update_active, update_queue or
\* update_completed has stored; the running record is stored as it comes.
ReturnStatus ==
    /\ call.fn = "status"
    /\ ~call.done
    /\ LET shown == IF call.state = "running" THEN call.item
                    ELSE prepare_display_item(call.item, call.state = "completed")
       IN  call' = [call EXCEPT
                       !.done = TRUE,
                       !.shown = shown,
                       !.out = resolve_queue_value("status", shown, 0, RoiKeyMap,
                                                   AvailableParams(FALSE, {}),
                                                   call.state = "running").text]
    /\ UNCHANGED session_vars

\* The widget is built and set_controller("ctrl") shows the first snapshot.
SetWrites ==
    /\ call.fn = "writes"
    /\ ~call.ready
    /\ call' = [call EXCEPT !.ready = TRUE,
                            !.before = set_controller(Widget, "ctrl", <<call.first>>)]
    /\ UNCHANGED session_vars

\* The column of the cells that are written and edited: dwell.
WriteColumn(w) == CHOOSE c \in 1..Len(w.columns) : w.columns[c] = "dwell"

\* The user's commit writes the text into the cell with the signals of the
\* table unblocked: itemChanged runs _handle_item_changed.
UserEdit(w, cell_row, col, text) ==
    handle_item_changed(
        [w EXCEPT !.table[cell_row + 1].cells[col].text = text,
                  !.signals = cells_written(@, <<<<cell_row, col>>>>)],
        cell_row, col, text)

\* The user commits call.text: _handle_item_changed runs up to update_fn.
CommitWrites ==
    /\ call.fn = "writes"
    /\ call.op = "edit"
    /\ call.ready
    /\ ~call.committed
    /\ call' = [call EXCEPT
                   !.committed = TRUE,
                   !.handled = UserEdit(call.before, call.cell_row, WriteColumn(call.before),
                                        call.text)]
    /\ UNCHANGED session_vars

\* The write is carried out; in an edit update_fn, when it has been called,
\* answers call.response and the handler runs to its end.
ReturnWrites ==
    /\ call.fn = "writes"
    /\ call.ready
    /\ ~call.done
    /\ call.op = "edit" => call.committed
    /\ call' = [call EXCEPT
                   !.done = TRUE,
                   !.sent = call.op = "edit" /\ call.handled.how = "call",
                   !.after =
                       CASE call.op = "poll" ->
                                handle_queue_updated(
                                    call.before,
                                    [NoSnapshot EXCEPT
                                        !.pending = <<RecordOf("B"), RecordOf("A")>>])
                         [] call.op = "rebuild" -> rebuild_queue_table(call.before)
                         [] call.op = "restore" ->
                                restore_cell_from_cache(
                                    [call.before EXCEPT
                                        !.table[call.cell_row + 1]
                                            .cells[WriteColumn(call.before)].text = call.text],
                                    call.cell_row,
                                    call.cell_row - RunningOffset(call.before),
                                    WriteColumn(call.before))
                         [] call.handled.how = "call" ->
                                finish_item_changed(call.handled.w, call.handled.locals,
                                                    call.response)
                         [] OTHER -> call.handled.w]
    /\ UNCHANGED session_vars

\* The widget is built and set_controller("ctrl") runs: `before` is the
\* widget when `op` is called.
SetCaches ==
    /\ call.fn = "caches"
    /\ ~call.ready
    /\ call' = [call EXCEPT
                   !.ready = TRUE,
                   !.before = [set_controller([Widget EXCEPT !.allowed = call.first_answer],
                                              "ctrl", <<call.first>>)
                                  EXCEPT !.allowed = call.answer]]
    /\ UNCHANGED session_vars

\* `op` runs: `after` is the widget when it has returned.
ReturnCaches ==
    /\ call.fn = "caches"
    /\ call.ready
    /\ ~call.done
    /\ call' = [call EXCEPT
                   !.done = TRUE,
                   !.after = IF call.op = "set_controller"
                             THEN set_controller(call.before, call.ctrl, call.fetched)
                             ELSE handle_queue_updated(call.before, call.fetched[1])]
    /\ UNCHANGED session_vars

ReturnApply ==
    /\ call.fn = "apply_item_edit"
    /\ ~call.done
    /\ LET r == apply_item_edit(call.item, call.column, call.text,
                                extract_plan_name(call.item), AllowedPlans, RoiKeyMap)
       IN  call' = [call EXCEPT !.done = TRUE, !.st = r.st, !.out = r.item]
    /\ UNCHANGED session_vars

\* _handle_item_changed runs up to the remote call, or to the return before
\* it: the call records how it ended, the raw record as the edit in place
\* has left it, the row's values as _get_row_values reads them, and the
\* payload the handler has built.
ReturnEdit ==
    /\ call.fn = "edit"
    /\ ~call.done
    /\ LET w == Showing(<<call.item>>)
           h == Edited(w, ColumnOf(w, call.column), call.text)
       IN  call' = [call EXCEPT !.done = TRUE,
                                !.how = h.how,
                                !.raw = h.w.pending_raw_items[1],
                                !.row_values = get_row_values(h.w, 0),
                                !.payload = h.locals.payload]
    /\ UNCHANGED session_vars

Next ==
    \/ \E snapshot \in Snapshots : SetController(snapshot)
    \/ \E snapshot \in Snapshots : Poll(snapshot)
    \/ DeliverSnapshot
    \/ TimerFire
    \/ \E row \in 0..(Len(table) - 1), col \in 1..Len(columns) : OpenEditor(row, col)
    \/ CancelEditor
    \/ \E text \in EditTexts : CommitEditor(text)
    \/ \E response \in Responses : EditReturn(response)
    \/ \E row \in 0..(Len(table) - 1) : DragEnter(row)
    \/ DragMove
    \/ \E drop_row \in -1..(Len(table) - 1) : Drop(drop_row)
    \/ \E response \in Responses : MoveReturn(response)

Spec == Init /\ [][Next]_vars

\* The steps of a session in which the user edits cells and no poll is
\* answered.
NextEdit ==
    \/ \E snapshot \in Snapshots : SetController(snapshot)
    \/ TimerFire
    \/ \E row \in 0..(Len(table) - 1), col \in 1..Len(columns) : OpenEditor(row, col)
    \/ CancelEditor
    \/ \E text \in EditTexts : CommitEditor(text)
    \/ \E response \in Responses : EditReturn(response)

SpecEdit == Init /\ [][NextEdit]_vars

\* The steps of a session in which the user carries out one operation, an
\* edit or a drag.
NextOnce ==
    \/ \E snapshot \in Snapshots : SetController(snapshot)
    \/ \E snapshot \in Snapshots : Poll(snapshot)
    \/ DeliverSnapshot
    \/ TimerFire
    \/ \E row \in 0..(Len(table) - 1), col \in 1..Len(columns) :
           n_edits + n_drags = 0 /\ OpenEditor(row, col)
    \/ CancelEditor
    \/ \E text \in EditTexts : CommitEditor(text)
    \/ \E response \in Responses : EditReturn(response)
    \/ \E row \in 0..(Len(table) - 1) : n_edits + n_drags = 0 /\ DragEnter(row)
    \/ DragMove
    \/ \E drop_row \in -1..(Len(table) - 1) : Drop(drop_row)
    \/ \E response \in Responses : MoveReturn(response)

SpecOnce == Init /\ [][NextOnce]_vars

\* No delete has been asked for.
NoDelete ==
    [fn |-> "delete", asked |-> FALSE, selection |-> {}, current |-> -1, rows |-> <<>>,
     uids |-> <<>>]

\* The user clicks rows, which leaves `selection` selected and `current` the
\* current row, and presses "Delete Selected": _handle_delete_queue runs;
\* api.delete_queue sends the batch and swallows what the request raises.
\* `call` keeps the selection, the current row, the rows of the table and
\* the uids sent.
DeleteQueue(selection, current) ==
    /\ CanHandleInput
    /\ ~editor.open
    /\ ~drag.active
    /\ call.fn = "delete"
    /\ Len(SelectSeq(requests, LAMBDA c : c.cmd = "delete")) < MaxDeletes
    /\ selection \subseteq 0..(Len(table) - 1)
    /\ current \in 0..(Len(table) - 1) \cup {current_row}
    /\ current = -1 => selection = {}
    /\ LET h == handle_delete_queue([Widget EXCEPT !.current_row = current], selection)
       IN  /\ SetWidget(h.w)
           /\ requests' = IF h.uids = <<>> THEN requests
                          ELSE Append(requests, Command("delete", "", h.uids))
           /\ call' = [call EXCEPT !.asked = TRUE, !.selection = selection,
                                   !.current = current, !.rows = table, !.uids = h.uids]
    /\ UNCHANGED <<editor, ui, ui_queue, polling, n_polls, n_edits, n_drags, last,
                   drag_start_uid, poll_thread>>

\* The steps of a session in which the user only deletes rows.
NextDelete ==
    \/ \E snapshot \in Snapshots : SetController(snapshot)
    \/ \E snapshot \in Snapshots : Poll(snapshot)
    \/ DeliverSnapshot
    \/ \E selection \in SUBSET (0..(Len(table) - 1)),
          current \in -1..(Len(table) - 1) : DeleteQueue(selection, current)

SpecDelete == Start(NoDelete) /\ [][NextDelete]_vars

\* The steps of a session in which the user does nothing and the remote
\* keeps a history of two records.
NextSnap ==
    \/ \E snapshot \in HistorySnapshots : SetController(snapshot)
    \/ \E snapshot \in HistorySnapshots : Poll(snapshot)
    \/ DeliverSnapshot

SpecSnap == Init /\ [][NextSnap]_vars

\* One call of a record helper, on arguments drawn from the calls of the
\* model.
InitCalls ==
    \E c \in ExtractCalls \cup LookupCalls \cup EditCalls \cup ApplyCalls \cup EnsureCalls
               \cup DragCalls \cup CacheCalls \cup CoerceCalls \cup StatusCalls :
        Start(c)

NextCalls ==
    \/ ReturnExtract
    \/ ReturnLookup
    \/ ReturnEdit
    \/ ReturnApply
    \/ ReturnEnsure
    \/ ReturnSync
    \/ SetCaches
    \/ ReturnCaches
    \/ ReturnCoerce
    \/ ReturnStatus

SpecCalls == InitCalls /\ [][NextCalls]_vars

\* The calls that write cells of the table.
InitWrites == \E c \in WriteCalls : Start(c)

NextWrites ==
    \/ SetWrites
    \/ CommitWrites
    \/ ReturnWrites

SpecWrites == InitWrites /\ [][NextWrites]_vars

\* The steps of a session in which the user does nothing, the poll thread is
\* followed step by step and stop_polling is called.
NextPoll ==
    \/ \E snapshot \in PollRemotes : SetController(snapshot)
    \/ PollTest
    \/ \E remote \in PollRemotes, connected \in BOOLEAN :
           \E queue_response \in QueueResponses(remote),
              history_response \in HistoryResponses(remote) :
               PollAnswer(connected, queue_response, history_response)
    \/ PollWait
    \/ DeliverSnapshot
    \/ StopPolling
    \/ StopJoined

\* The poll thread runs, its remote calls return, and join returns.
SpecPoll ==
    /\ Init /\ [][NextPoll]_vars
    /\ WF_vars(PollTest)
    /\ WF_vars(\E remote \in PollRemotes, connected \in BOOLEAN :
                   \E queue_response \in QueueResponses(remote),
                      history_response \in HistoryResponses(remote) :
                       PollAnswer(connected, queue_response, history_response))
    /\ WF_vars(PollWait)
    /\ WF_vars(StopJoined)

(***************************************************************************)
(* QServerController.start_polling and stop_polling with every thread they *)
(* have created.  `call` holds the controller: threads[i] is where thread  *)
(* i is in _target ("test", "poll", "wait", "finally") or "dead"; handle   *)
(* is the thread self._poll_thread refers to, 0 for None; stop is          *)
(* self._poll_stop; ui is "join" while stop_polling waits in thread.join.  *)
(***************************************************************************)
NoThreads ==
    [fn |-> "polling", threads |-> <<>>, handle |-> 0, stop |-> FALSE, ui |-> "idle",
     joined |-> 0]

\* thread.is_alive()
IsAlive(c, i) == i # 0 /\ c.threads[i] # "dead"

\* start_polling
StartThread(c) ==
    IF IsAlive(c, c.handle) THEN c
    ELSE [c EXCEPT !.stop = FALSE, !.threads = Append(c.threads, "test"),
                   !.handle = Len(c.threads) + 1]

\* The UI thread calls start_polling.
ThreadStart ==
    /\ call.fn = "polling"
    /\ call.ui = "idle"
    /\ Len(call.threads) < MaxThreads
    /\ call' = StartThread(call)
    /\ UNCHANGED session_vars

\* The UI thread calls stop_polling: up to thread.join(timeout=1.0) when the
\* thread is alive, to the end otherwise.
ThreadStop ==
    /\ call.fn = "polling"
    /\ call.ui = "idle"
    /\ call' = IF IsAlive(call, call.handle)
               THEN [call EXCEPT !.stop = TRUE, !.ui = "join", !.joined = call.handle]
               ELSE [call EXCEPT !.handle = 0, !.stop = FALSE]
    /\ UNCHANGED session_vars

\* thread.join(timeout=1.0) returns: the thread has ended, or the second has
\* passed while the thread is in a remote call that takes longer.  Then
\* `self._poll_thread = None` and `self._poll_stop.clear()`.
ThreadJoined ==
    /\ call.fn = "polling"
    /\ call.ui = "join"
    /\ call.threads[call.joined] \in {"dead", "poll"}
    /\ call' = [call EXCEPT !.handle = 0, !.stop = FALSE, !.ui = "idle", !.joined = 0]
    /\ UNCHANGED session_vars

\* _target of thread i: `while not self._poll_stop.is_set()`
ThreadTest(i) ==
    /\ call.fn = "polling"
    /\ i \in 1..Len(call.threads)
    /\ call.threads[i] = "test"
    /\ call' = [call EXCEPT !.threads[i] = IF call.stop THEN "finally" ELSE "poll"]
    /\ UNCHANGED session_vars

\* self._poll() of thread i returns
ThreadPolled(i) ==
    /\ call.fn = "polling"
    /\ i \in 1..Len(call.threads)
    /\ call.threads[i] = "poll"
    /\ call' = [call EXCEPT !.threads[i] = "wait"]
    /\ UNCHANGED session_vars

\* `if self._poll_stop.wait(wait_seconds): break` of thread i
ThreadWaited(i) ==
    /\ call.fn = "polling"
    /\ i \in 1..Len(call.threads)
    /\ call.threads[i] = "wait"
    /\ call' = [call EXCEPT !.threads[i] = IF call.stop THEN "finally" ELSE "test"]
    /\ UNCHANGED session_vars

\* `finally: self._poll_thread = None` of thread i, which then ends
ThreadFinally(i) ==
    /\ call.fn = "polling"
    /\ i \in 1..Len(call.threads)
    /\ call.threads[i] = "finally"
    /\ call' = [call EXCEPT !.threads[i] = "dead", !.handle = 0]
    /\ UNCHANGED session_vars

NextThreads ==
    \/ ThreadStart
    \/ ThreadStop
    \/ ThreadJoined
    \/ \E i \in 1..MaxThreads : ThreadTest(i)
    \/ \E i \in 1..MaxThreads : ThreadPolled(i)
    \/ \E i \in 1..MaxThreads : ThreadWaited(i)
    \/ \E i \in 1..MaxThreads : ThreadFinally(i)

\* The controller after construction, and every interleaving of
\* start_polling, stop_polling and the steps of the threads.
SpecThreads == Start(NoThreads) /\ [][NextThreads]_vars

(***************************************************************************)
(* Sessions in which the remote queue has stopped changing: `call` holds   *)
(* the snapshot that every poll from now on fetches.                       *)
(***************************************************************************)
\* The queues the widget starts from, and the queues the remote settles on.
StartRemotes ==
    {s \in Snapshots : s.pending = <<RecordOf("A"), RecordOf("B")>> /\ s.completed = <<>>}
SettledRemotes ==
    {s \in Snapshots : /\ s.pending \in {<<RecordOf("B"), RecordOf("A")>>, <<RecordOf("A")>>}
                       /\ Len(s.completed) <= 1}

\* QServerController._poll in the poll thread, once the remote has settled:
\* the snapshot is emitted and queued for the UI thread.
PollSettled ==
    /\ polling
    /\ call.fn = "remote"
    /\ Len(ui_queue) < MaxQueued
    /\ timers < MaxTimers
    /\ ui_queue' = Append(ui_queue, call.snapshot)
    /\ views' = <<>>
    /\ UNCHANGED <<controller, plan_definitions, plan_param_cache, pending_raw_items,
                   pending_items, shares, completed_items, running_item, columns, table,
                   current_row, editor, pending_table_refresh, timers, status_message,
                   drag, ui, requests, polling, n_polls, n_edits, n_drags,
                   last, drag_start_uid, poll_thread, call>>

InitSettle == \E s \in SettledRemotes : Start([fn |-> "remote", snapshot |-> s])

\* The user carries out at most one operation, an edit or a drag, and may
\* leave an editor open.
NextSettle ==
    \/ \E snapshot \in StartRemotes : SetController(snapshot)
    \/ PollSettled
    \/ DeliverSnapshot
    \/ TimerFire
    \/ \E row \in 0..(Len(table) - 1), col \in 1..Len(columns) :
           n_edits + n_drags = 0 /\ OpenEditor(row, col)
    \/ CancelEditor
    \/ \E text \in EditTexts : CommitEditor(text)
    \/ \E response \in Responses : EditReturn(response)
    \/ \E row \in 0..(Len(table) - 1) : n_edits + n_drags = 0 /\ DragEnter(row)
    \/ DragMove
    \/ \E drop_row \in -1..(Len(table) - 1) : Drop(drop_row)
    \/ \E response \in Responses : MoveReturn(response)

\* The steps that the schedulers of the program do not put off for ever.
\* Each is told by the variable it changes: under NextSettle only
\* DeliverSnapshot shortens the queue of the UI thread, only TimerFire with
\* no editor open takes a timer away, and only EditReturn and MoveReturn
\* bring the UI thread back from a remote call.
Delivered == CanDeliver /\ ui_queue # <<>> /\ ui_queue' = Tail(ui_queue)
TimerFired == CanHandleInput /\ timers > 0 /\ ~editor.open /\ timers' = timers - 1
Returned == ui.pc \in {"update", "move"} /\ ui' = Idle

\* The poll thread goes on polling, the event loop of the UI thread handles
\* queued signals and timers, and the remote calls return or raise.
SpecSettle ==
    /\ InitSettle /\ [][NextSettle]_vars
    /\ WF_vars(PollSettled)
    /\ WF_ui_queue(Delivered)
    /\ WF_timers(TimerFired)
    /\ WF_ui(Returned)

\* The same sessions with no assumption on the poll thread nor on the
\* delivery of its signals: only the timers fire and the remote calls return.
SpecDefer ==
    /\ InitSettle /\ [][NextSettle]_vars
    /\ WF_timers(TimerFired)
    /\ WF_ui(Returned)

(***************************************************************************)
(* Properties                                                              *)
(***************************************************************************)
\* C1: after an edit of a pending row whose remote update call raised or
\* answered success false, the raw record and the display record at that row
\* equal what they were before the edit, nested containers included.
C1_FailedEditRestoresRecord ==
    (last.op = "edit" /\ last.how \in {"raised", "rejected"}) =>
        LET row == last.cell_row - (IF get_uid(running_item) # "" THEN 1 ELSE 0)
        IN  /\ row + 1 \in DOMAIN pending_raw_items
            /\ row + 1 \in DOMAIN last.pre_raw
            /\ pending_raw_items[row + 1] = last.pre_raw[row + 1]
            /\ pending_items[row + 1] = last.pre_items[row + 1]

\* C2: while an edit or a move waits for its remote response, no queued
\* snapshot is taken from the queue, and the pending, running and completed
\* collections change only in the step that ends the operation.
C2_SnapshotWaitsForOperation ==
    [][ui.pc # "idle" =>
          /\ Len(ui_queue') >= Len(ui_queue)
          /\ ui'.pc # "idle" =>
                 UNCHANGED <<pending_raw_items, pending_items, running_item,
                             completed_items>>]_vars

C2_Witness == ui.pc # "idle" /\ ui_queue # <<>>

\* C3: after a successful move of uid u to destination index d, with d within
\* the pending list, the pending order is the order before the drop with u
\* removed and inserted again at index d.
C3_MovedToDestination ==
    (/\ last.op = "move" /\ last.how = "ok"
     /\ last.target \in 0..(Len(last.pre_raw) - 1)
     /\ \E i \in 1..Len(last.pre_raw) : get_uid(last.pre_raw[i]) = last.uid) =>
        LET source == CHOOSE i \in 1..Len(last.pre_raw) :
                          get_uid(last.pre_raw[i]) = last.uid
            rest == [i \in 1..(Len(last.pre_raw) - 1) |->
                        IF i < source THEN last.pre_raw[i] ELSE last.pre_raw[i + 1]]
        IN  pending_raw_items =
                SubSeq(rest, 1, last.target) \o <<last.pre_raw[source]>>
                \o SubSeq(rest, last.target + 1, Len(rest))

\* C4: when the payload build of an edit fails with a coercion error, no
\* remote update is sent and every raw and display record of the pending
\* list equals what it was before the edit, with or without a running record.
C4_PayloadErrorRestoresList ==
    (last.op = "edit" /\ last.how = "payload_error") =>
        /\ ~last.sent
        /\ pending_raw_items = last.pre_raw
        /\ pending_items = last.pre_items

\* C5: when the new text of the cell cannot be coerced to the type of its
\* parameter, the pending raw and display lists are what they were before
\* the edit and no remote update is sent.
C5_CoerceErrorBeforeMutation ==
    (last.op = "edit" /\ last.how = "coerce_error") =>
        /\ ~last.sent
        /\ requests = <<>>
        /\ pending_raw_items = last.pre_raw
        /\ pending_items = last.pre_items

C5_Witness ==
    /\ last.op = "edit" /\ last.how = "coerce_error"
    /\ last.row_state = "pending"
    /\ table[last.cell_row + 1].cells[CHOOSE c \in 1..Len(columns) :
                                          columns[c] = "dwell"].text = "abc"

\* C6: an edit of a row that is running or completed by its position
\* changes none of the pending, running and completed collections and sends
\* no remote update.
C6_ReadOnlyRows ==
    (last.op = "edit" /\ last.row_state \in {"running", "completed"}) =>
        /\ ~last.sent
        /\ requests = <<>>
        /\ pending_raw_items = last.pre_raw
        /\ pending_items = last.pre_items
        /\ running_item = last.pre_running
        /\ completed_items = last.pre_completed

C6_Witness ==
    /\ last.op = "edit" /\ last.row_state = "running"
    /\ pending_raw_items # <<>>

\* C7: after a move whose remote command raised or answered success false,
\* the pending raw and display lists are what they were before the drop.
C7_FailedMoveKeepsOrder ==
    (last.op = "move" /\ last.how \in {"raised", "rejected"}) =>
        /\ pending_raw_items = last.pre_raw
        /\ pending_items = last.pre_items

C7_Witness ==
    /\ last.op = "move" /\ last.how \in {"raised", "rejected"}
    /\ \E i \in 1..Len(pending_raw_items) :
           get_uid(pending_raw_items[i]) = last.uid /\ i - 1 # last.target

\* C8: the uid sent in a remote move command is the uid of the row the drag
\* started on.
C8_MoveSendsDragStartUid ==
    (last.op = "move" /\ last.sent) => last.uid = drag_start_uid

\* C9: no two remote update commands for the same uid are in flight at one
\* time.
C9_OneUpdateInFlight ==
    \A i, j \in 1..Len(requests) :
        (i # j /\ requests[i].cmd = "update" /\ requests[j].cmd = "update")
            => requests[i].uid # requests[j].uid

C9_Witness == ui.pc = "update" /\ ui.after = ui.uid /\ Len(requests) = 1

\* C10: a column id that is in the column list stays in the list at the same
\* position in every later step.
C10_ColumnsKeepPosition ==
    [][\A i \in 1..Len(columns) :
           Len(columns') >= i /\ columns'[i] = columns[i]]_vars

\* C11: in every run of the table rebuild, the runs between the three steps
\* of applying one snapshot included, the uid of the running record is the
\* uid of no pending and no completed row; the snapshots are consistent.
C11_RunningUidUnique ==
    \A v \in 1..Len(views) :
        views[v].running_uid # "" =>
            \A i \in 2..Len(views[v].rows) :
                views[v].rows[i].uid # views[v].running_uid

\* C12: in every rebuilt view the state of a row follows from its position:
\* row 0 is running iff there is a running record, the next n_pending rows
\* are pending and the rows after them are completed.
C12_RowStatePositional ==
    \A v \in 1..Len(views) :
        \A i \in 1..Len(views[v].rows) :
            views[v].rows[i].state =
                IF views[v].running_uid # "" /\ i = 1 THEN "running"
                ELSE IF i - (IF views[v].running_uid # "" THEN 1 ELSE 0)
                            <= views[v].n_pending
                THEN "pending"
                ELSE "completed"

\* C13: after a snapshot (pending P, running R, completed C) has been
\* applied, the local pending lists are P and the normalized P in the order
\* of P, the local completed list is the normalized C newest first, and the
\* running record is R, or a record without uid, which the view does not
\* show, when R is absent; nothing of the previous lists is left.
C13_SnapshotReplacesCollections ==
    last.op = "snapshot" =>
        /\ pending_raw_items = last.snapshot.pending
        /\ pending_items =
               [i \in 1..Len(last.snapshot.pending) |->
                   prepare_display_item(last.snapshot.pending[i], FALSE)]
        /\ completed_items =
               [i \in 1..Len(last.snapshot.completed) |->
                   prepare_display_item(
                       last.snapshot.completed[Len(last.snapshot.completed) + 1 - i],
                       TRUE)]
        /\ IF IsNone(last.snapshot.running)
           THEN get_uid(running_item) = ""
           ELSE running_item = last.snapshot.running

C13_Witness ==
    /\ last.op = "snapshot" /\ last.how = "poll"
    /\ Len(last.snapshot.completed) = 2
    /\ Len(last.snapshot.pending) = 1
    /\ get_uid(completed_items[1]) = get_uid(last.snapshot.completed[2])
    /\ get_uid(completed_items[1]) # get_uid(completed_items[2])

\* C14: when the snapshot applied was built from a queue request that did
\* not succeed, the local pending lists and the running record are what they
\* were before it was applied, and when it was built from a history request
\* that did not succeed, so is the local completed list; a fetch in which a
\* request raises emits no snapshot.
C14_FailedPollKeepsCollections ==
    last.op = "snapshot" =>
        /\ ~last.snapshot.queue_ok =>
               /\ pending_raw_items = last.pre_raw
               /\ pending_items = last.pre_items
               /\ get_uid(running_item) = get_uid(last.pre_running)
        /\ ~last.snapshot.history_ok => completed_items = last.pre_completed

\* C15: once stop_polling has returned, the poll thread ends at some later
\* time and no snapshot is emitted any more; start_polling is not called
\* again.
C15_StoppedThreadEnds ==
    /\ [](poll_thread.stopped => <>(poll_thread.pc = "none"))
    /\ [][poll_thread.stopped => Len(ui_queue') <= Len(ui_queue)]_vars

\* C16: extract_item_field finds the value of key k in a record that holds k
\* at top level, in one that holds it under kwargs, and in one that holds it
\* under item.kwargs.
C16_ResolverFindsAllShapes ==
    (call.fn = "extract_item_field" /\ call.done) => call.out = call.value

\* C17: when a candidate key of the column is literally present in
\* record.kwargs, the alias lookup answers a candidate that is present in
\* kwargs, with the value kwargs holds for it, None included.
C17_PresentKeyPreferred ==
    (/\ call.fn = "lookup_roi_value" /\ call.done
     /\ \E i \in 1..Len(RoiGet(RoiKeyMap, "width")) :
            Has(Get(call.item, "kwargs"), RoiGet(RoiKeyMap, "width")[i])) =>
        /\ ~call.out.isNone
        /\ Has(Get(call.item, "kwargs"), call.out.key)
        /\ call.out.value = Get(Get(call.item, "kwargs"), call.out.key)

\* C18: the alias lookup answers (None, alias) for a candidate named in
\* available_params only when no candidate has a value in record.kwargs, in
\* record.item.kwargs or by extract_item_field.
C18_FallbackOnlyWithoutValue ==
    (/\ call.fn = "lookup_roi_value" /\ call.done
     /\ ~call.out.isNone /\ IsNone(call.out.value)) =>
        \A i \in 1..Len(RoiGet(RoiKeyMap, "width")) :
            /\ IsNone(Get(Get(call.item, "kwargs"), RoiGet(RoiKeyMap, "width")[i]))
            /\ IsNone(Get(Get(Get(call.item, "item"), "kwargs"),
                          RoiGet(RoiKeyMap, "width")[i]))
            /\ IsNone(extract_item_field(call.item, RoiGet(RoiKeyMap, "width")[i]))

\* C19: when the remote update call of an edit returns without raising and
\* its response is not an explicit success false, the handler leaves the
\* pending lists as the edit has mutated them: nothing is rolled back.
C19_UnrejectedEditKept ==
    [][(/\ ui.pc = "update" /\ ui'.pc = "idle"
        /\ last'.how \notin {"raised", "rejected"}) =>
            /\ pending_raw_items' = pending_raw_items
            /\ pending_items' = pending_items]_vars

\* The kwargs of the record a call edits, as the edit in place has left them.
EditedKwargs == IF IsDict(Get(call.raw, "kwargs")) THEN Get(call.raw, "kwargs") ELSE EmptyDict
\* The keys of the row's values that build_update_payload looks at, those
\* among them whose text is blank, and the others.
SentKeys == {call.row_values[i].k : i \in 1..Len(call.row_values)} \ {"name", "status"}
RowText(k) == call.row_values[CHOOSE i \in 1..Len(call.row_values) : call.row_values[i].k = k].v
BlankKeys == {k \in SentKeys : Strip(RowText(k)) = ""}
WrittenKeys == SentKeys \ BlankKeys
PayloadSent == call.fn = "edit" /\ call.done /\ call.how = "call"

\* C20 as amended: the kwargs of the update payload sent for an edit are the
\* kwargs of the record as the edit in place has left it, with every blank
\* column value of the row removed and every other column value of the row,
\* name and status aside, written as the parameter catalog coerces it; a key
\* of these kwargs that is not a column value of the row is carried over
\* with its value.
C20_PayloadKwargsMerged ==
    PayloadSent =>
        LET kwargs == Get(call.payload, "kwargs")
            plan_name == extract_plan_name(call.item)
        IN  /\ SeqToSet(KeysOf(kwargs)) =
                   (SeqToSet(KeysOf(EditedKwargs)) \ BlankKeys) \cup WrittenKeys
            /\ \A k \in WrittenKeys :
                   Get(kwargs, k) = coerce_for_key(AllowedPlans, plan_name, k, RowText(k)).v
            /\ \A k \in SeqToSet(KeysOf(EditedKwargs)) \ SentKeys :
                   Get(kwargs, k) = Get(EditedKwargs, k)

\* A payload has been sent for a record whose kwargs hold a key that is no
\* column value of the row, and a column of the row is blank.
C20_Witness ==
    /\ PayloadSent
    /\ SeqToSet(KeysOf(EditedKwargs)) \ SentKeys # {}
    /\ BlankKeys # {}
    /\ WrittenKeys # {}

\* C20: the kwargs of the update payload sent for an edit hold the row's
\* column values other than name and status, coerced through the parameter
\* catalog, and no key that is not a column value of the row.
C20_PayloadKwargsExactlyRow ==
    PayloadSent =>
        LET kwargs == Get(call.payload, "kwargs")
            plan_name == extract_plan_name(call.item)
        IN  /\ SeqToSet(KeysOf(kwargs)) \subseteq SentKeys
            /\ \A k \in WrittenKeys :
                   Get(kwargs, k) = coerce_for_key(AllowedPlans, plan_name, k, RowText(k)).v

\* The locations an apply_item_edit call has written: those that hold a value
\* they did not hold before; and the locations the record held before the
\* call under the column id or one of its aliases.
Applied == call.fn = "apply_item_edit" /\ call.done /\ call.st = "true"
WrittenPaths == {l[1] : l \in Leaves(call.out, <<>>) \ Leaves(call.item, <<>>)}
PathsBefore == {l[1] : l \in Leaves(call.item, <<>>)}
EditNames ==
    {call.column} \cup
    (IF RoiHas(RoiKeyMap, call.column)
     THEN SeqToSet(RoiGet(RoiKeyMap, call.column)) ELSE {})
ExistingFields == {p \in PathsBefore : p[Len(p)] \in EditNames}

\* C21: an apply_item_edit that returns True has written at most one location
\* of the record: the top-level key of the column id when the record holds
\* it, else the kwargs key when kwargs holds it; and it has created a
\* location the record did not hold only when the record held no field
\* under the column id or any of its aliases.
C21_EditWritesOneFoundLocation ==
    Applied =>
        /\ Cardinality(WrittenPaths) <= 1
        /\ <<call.column>> \in PathsBefore => WrittenPaths \subseteq {<<call.column>>}
        /\ (<<call.column>> \notin PathsBefore /\ <<"kwargs", call.column>> \in PathsBefore)
               => WrittenPaths \subseteq {<<"kwargs", call.column>>}
        /\ \A p \in WrittenPaths : p \notin PathsBefore => ExistingFields = {}

\* C22: after an edit that was refused or has failed (the row is the running
\* one or a completed one, the text cannot be coerced, the payload cannot be
\* built, the remote call raised or was rejected) the status label shows a
\* message.
C22_FailedEditReported ==
    (/\ last.op = "edit"
     /\ last.how \in {"negative_row", "not_pending", "coerce_error", "cannot_edit",
                       "payload_error", "raised", "rejected"}) =>
        status_message # ""

\* The kwargs and item.kwargs keys of the records of a queue, in the order
\* _ensure_columns meets them.
KwargsKeysOf(item) ==
    (IF IsDict(Get(item, "kwargs")) THEN KeysOf(Get(item, "kwargs")) ELSE <<>>)
    \o (IF IsDict(Get(item, "item")) /\ IsDict(Get(Get(item, "item"), "kwargs"))
        THEN KeysOf(Get(Get(item, "item"), "kwargs")) ELSE <<>>)
RECURSIVE KeysSeen(_)
KeysSeen(queue) ==
    IF queue = <<>> THEN <<>> ELSE KwargsKeysOf(Head(queue)) \o KeysSeen(Tail(queue))
FirstAt(seq, k) == CHOOSE i \in 1..Len(seq) : seq[i] = k /\ \A j \in 1..(i - 1) : seq[j] # k
Ensured == call.fn = "ensure_columns" /\ call.done

\* C23: a run of _ensure_columns on records that yield the ordered id list
\* self._columns already holds assigns nothing and configures nothing, and
\* a run on records that yield another list replaces self._columns by it.
C23_EnsureColumnsIdempotent ==
    Ensured =>
        LET required == RequiredColumnsFor(call.roi_key_map, call.second)
        IN  /\ required = call.columns => ~call.replaced /\ call.out = call.columns
            /\ required # call.columns => call.replaced /\ call.out = required
            /\ call.second = call.first => ~call.replaced

\* The second run, on other records than the first, has met the ids the
\* first run had left.
C23_Witness ==
    /\ Ensured
    /\ call.first # call.second
    /\ ~call.replaced
    /\ Len(call.columns) > 4

\* The fixed columns, the alias-map keys that follow them, and the columns
\* after these.
FixedColumns == <<"status", "name", "scan_ids">>
RoiColumns ==
    SelectSeq([i \in 1..Len(call.roi_key_map) |-> call.roi_key_map[i].k],
              LAMBDA k : k \notin SeqToSet(FixedColumns))
LeadColumns == FixedColumns \o RoiColumns
DynamicColumns == SubSeq(call.out, Len(LeadColumns) + 1, Len(call.out))
AliasValues == UNION {SeqToSet(call.roi_key_map[i].v) : i \in 1..Len(call.roi_key_map)}

\* The column list is the fixed columns, the alias-map keys in declared
\* order, then the keys seen in the records other than those in `claimed`
\* and those already listed, in first-seen order, no id twice.
ColumnListIs(claimed) ==
    /\ \A i, j \in 1..Len(call.out) : i # j => call.out[i] # call.out[j]
    /\ Len(call.out) >= Len(LeadColumns)
    /\ SubSeq(call.out, 1, Len(LeadColumns)) = LeadColumns
    /\ SeqToSet(DynamicColumns) =
           (SeqToSet(KeysSeen(call.second)) \ claimed) \ SeqToSet(LeadColumns)
    /\ \A i, j \in 1..Len(DynamicColumns) :
           i < j => FirstAt(KeysSeen(call.second), DynamicColumns[i])
                        < FirstAt(KeysSeen(call.second), DynamicColumns[j])

\* C24 as amended: the computed column list is status, name, scan_ids, then
\* one column per alias-map key in declared order, then one column per
\* kwargs or item.kwargs key that is not in any alias value set or is the
\* key "title", in first-seen order over the visible rows; no column id
\* occurs twice.
C24_ColumnListButTitle == Ensured => ColumnListIs(AliasValues \ {"title"})

\* The records hold keys that an alias value set claims, "title" among
\* them, and keys that none claims.
C24_Witness ==
    /\ Ensured
    /\ "title" \in AliasValues \cap SeqToSet(KeysSeen(call.second))
    /\ "note" \in AliasValues \cap SeqToSet(KeysSeen(call.second))
    /\ Len(DynamicColumns) >= 2
    /\ Len(call.second) = 2

\* C24: the computed column list is status, name, scan_ids, then one column
\* per alias-map key in declared order, then one column per kwargs or
\* item.kwargs key that is not in any alias value set, in first-seen order
\* over the visible rows; no column id occurs twice.
C24_ColumnList == Ensured => ColumnListIs(AliasValues)

\* A record has a resolvable uid: a non-empty string under "item_uid" or
\* "uid", in the record or in the record it wraps under "item".
HasUid(item) ==
    \E holder \in {item} \cup (IF IsDict(Get(item, "item")) THEN {Get(item, "item")} ELSE {}) :
        \E k \in {"item_uid", "uid"} :
            Has(holder, k) /\ Get(holder, k).t = "str" /\ Get(holder, k).s # ""
\* Dragging is to be enabled for a controller and a pending list.
MayDrag(ctrl, pending) ==
    /\ ctrl # "none"
    /\ Len(pending) > 1
    /\ \A i \in 1..Len(pending) : HasUid(pending[i])
Synced == call.fn = "sync_pending_items" /\ call.done

\* C25: after set_controller and after sync_pending_items the drag
\* controller holds dragging enabled, and the table is in InternalMove mode,
\* exactly when a controller is set, more than one pending record exists
\* and every pending record has a resolvable uid; otherwise dragging is
\* disabled and the table is in NoDragDrop mode.
C25_DragEnabledExactly ==
    Synced =>
        /\ call.set.drag_enabled = MayDrag(call.controller, call.first)
        /\ call.set.mode = (IF MayDrag(call.controller, call.first)
                            THEN "InternalMove" ELSE "NoDragDrop")
        /\ call.out.drag_enabled = MayDrag(call.controller, call.pending)
        /\ call.out.mode = (IF MayDrag(call.controller, call.pending)
                            THEN "InternalMove" ELSE "NoDragDrop")

\* Dragging was enabled, and the sync of three records of which one has no
\* resolvable uid has disabled it.
C25_Witness ==
    /\ Synced
    /\ call.set.drag_enabled
    /\ Len(call.pending) = 3
    /\ \E i \in 1..3 : ~HasUid(call.pending[i])
    /\ ~call.out.drag_enabled

\* C26: while a move command is with the remote, its destination index lies
\* in [0, len(pending) - 1] for the pending list the widget holds, the list
\* is not empty and dragging is enabled.
C26_MoveTargetInRange ==
    ui.pc = "move" =>
        /\ drag.drag_enabled
        /\ pending_raw_items # <<>>
        /\ 0 <= ui.target_row
        /\ ui.target_row <= Len(pending_raw_items) - 1

\* The call on the caches has returned.
CachesDone(op) == call.fn = "caches" /\ call.done /\ call.op = op

\* Every parameter-name set cached before the call is cached after it, as
\* it was.
CachedSetsKept ==
    \A n \in DOMAIN call.before.plan_param_cache :
        /\ n \in DOMAIN call.after.plan_param_cache
        /\ call.after.plan_param_cache[n] = call.before.plan_param_cache[n]

\* The parameter names the controller answers for a plan when the call is
\* made.
NamesNow(ctrl, n) ==
    IF ctrl = "none" \/ call.answer.raised THEN {}
    ELSE {p.name : p \in UNION {{d.parameters[i] : i \in 1..Len(d.parameters)}
                                : d \in {call.answer.plans[j]
                                         : j \in {k \in 1..Len(call.answer.plans)
                                                  : call.answer.plans[k].name = n}}}}

\* No parameter-name set cached before the call is left: each set cached
\* after it is what the controller `ctrl` answers now.
CachedSetsCleared(ctrl) ==
    \A n \in DOMAIN call.after.plan_param_cache :
        call.after.plan_param_cache[n] = NamesNow(ctrl, n)

\* The definitions after a load from the controller `ctrl`.
DefinitionsLoaded(ctrl) ==
    call.after.plan_definitions =
        IF ctrl = "none" \/ call.answer.raised THEN <<>> ELSE call.answer.plans

\* Replacing the controller by a different one clears both caches: the
\* definitions are those the new controller answers, none without one.
ReplacedClears ==
    (CachesDone("set_controller") /\ call.ctrl # call.before.controller)
        => DefinitionsLoaded(call.ctrl) /\ CachedSetsCleared(call.ctrl)

\* C27 as stated: both caches are cleared when the controller is replaced
\* by a different one, and the arrival of a poll snapshot leaves the
\* definitions and every cached parameter-name set as they were.
C27_CachesKeptBySnapshot ==
    /\ ReplacedClears
    /\ CachesDone("handle_queue_updated")
          => /\ call.after.plan_definitions = call.before.plan_definitions
             /\ CachedSetsKept

\* C27, amended: both caches are cleared when the controller is replaced
\* by a different one; the arrival of a poll snapshot leaves definitions
\* that are not empty and the cached parameter-name sets as they were, and
\* with empty definitions it loads them again and, when the controller
\* answers, clears the parameter-name sets.
C27_CachesKeptUnlessReloaded ==
    /\ ReplacedClears
    /\ CachesDone("handle_queue_updated")
          => IF call.before.plan_definitions # <<>>
             THEN /\ call.after.plan_definitions = call.before.plan_definitions
                  /\ CachedSetsKept
             ELSE /\ DefinitionsLoaded(call.before.controller)
                  /\ IF call.answer.raised THEN CachedSetsKept
                     ELSE CachedSetsCleared(call.before.controller)

\* A snapshot has arrived at a widget without definitions, the controller
\* has answered, and a parameter-name set cached before is gone.
C27_Witness ==
    /\ CachesDone("handle_queue_updated")
    /\ call.before.plan_definitions = <<>>
    /\ call.after.plan_definitions # <<>>
    /\ \E n \in DOMAIN call.before.plan_param_cache :
           call.after.plan_param_cache[n] # call.before.plan_param_cache[n]

\* PlanParameter.coerce has returned or raised.
Coerced == call.fn = "coerce" /\ call.done

\* The inferred type as C28 states it.
TypeStated ==
    IF call.parameter.type_name # "" THEN call.parameter.type_name
    ELSE IF call.parameter.default.t \in {"bool", "int", "float"}
         THEN call.parameter.default.t
    ELSE "str"

\* The texts of the calls that Python parses as int, as float, and as one of
\* the words coerce takes for a bool.
IntTexts == {"7", "0"}
FloatTexts == {"7", "0", "1.5"}
BoolTexts == {"True", "yes", "0", "off"}

\* The text of the call can be parsed as the stated type; a type that is
\* none of int, float, bool takes every text.
Parses ==
    CASE TypeStated = "int" -> call.text \in IntTexts
      [] TypeStated \in {"float", "Float"} -> call.text \in FloatTexts
      [] TypeStated = "bool" -> call.text \in BoolTexts
      [] OTHER -> TRUE

\* The text of the call is blank or "None" once stripped.
BlankOrNone == call.text \in {"", " ", "None"}

\* C28 as stated: coerce fails for every text that cannot be parsed as the
\* inferred type (type_name if given, else the type of a bool, int or float
\* default, else string).
C28_CoerceFailsUnparsable == (Coerced /\ ~Parses) => ~call.out.ok

\* C28, amended: coerce answers None for a text that is blank or "None"
\* once stripped, whatever the type; for every other text it fails exactly
\* when the text cannot be parsed as the inferred type.
C28_CoerceFailsUnparsableNotBlank ==
    Coerced => IF BlankOrNone THEN call.out = Ok(NoneV)
               ELSE call.out.ok = Parses

\* coerce has failed on a text for a parameter whose type comes from its
\* default.
C28_Witness ==
    /\ Coerced
    /\ call.parameter.type_name = ""
    /\ call.parameter.default.t = "int"
    /\ call.text = "1.5"
    /\ ~call.out.ok

\* C29: while the remote update of a cell edit is with the remote, it
\* targets the record whose uid the edited row showed when its editor was
\* opened, whatever snapshots have arrived since.
C29_UpdateTargetsShownRecord ==
    ui.pc = "update" =>
        /\ ui.uid = editor.uid
        /\ \E i \in 1..Len(requests) :
               requests[i].cmd = "update" /\ requests[i].uid = editor.uid

\* C30: the UI thread applies no snapshot that the poll thread had emitted
\* before an edit or a move was sent that the remote has accepted since.
C30_NoStaleSnapshotApplied ==
    [][(ui_queue # <<>> /\ ui_queue' = Tail(ui_queue) /\ last'.op = "snapshot")
          => last.stale = 0]_vars

\* C31: while a move command is with the remote and the item was dropped on
\* a row shown as pending, the destination index sent is the pending-list
\* index of that row: the table row, less one when table row 0 shows the
\* running record.
C31_MoveTargetIsPendingIndex ==
    (/\ ui.pc = "move"
     /\ drag.pending_drop_row \in 0..(Len(table) - 1)
     /\ table[drag.pending_drop_row + 1].state = "pending") =>
        ui.target_row =
            drag.pending_drop_row - (IF table[1].state = "running" THEN 1 ELSE 0)

\* The poll threads that are running.
AliveThreads == {i \in 1..Len(call.threads) : call.threads[i] # "dead"}

\* C32: across every interleaving of start_polling, stop_polling and the
\* steps of the poll threads, at most one poll thread is running.
C32_OnePollThread == call.fn = "polling" => Cardinality(AliveThreads) <= 1

\* How many records of the list hold the uid.
CountUid(items, uid) == Cardinality({i \in 1..Len(items) : get_uid(items[i]) = uid})

\* The two lists hold every uid the same number of times.
SameUids(items, others) ==
    \A uid \in {get_uid(items[i]) : i \in 1..Len(items)}
               \cup {get_uid(others[i]) : i \in 1..Len(others)} :
        CountUid(items, uid) = CountUid(others, uid)

\* The step applies a snapshot: set_controller fetches one, or the UI thread
\* takes one from its queue.
AppliesSnapshot == controller' # controller \/ Len(ui_queue') < Len(ui_queue)

\* C33: a step that applies no snapshot (an edit commit, the return of the
\* remote call with its rollback, a local reorder, a deferred rebuild) keeps
\* every uid of the pending list as many times as it was there, in the raw
\* and in the display list, and leaves the running record and the completed
\* list as they were.
C33_LocalStepsKeepUids ==
    [][~AppliesSnapshot =>
          /\ SameUids(pending_raw_items', pending_raw_items)
          /\ SameUids(pending_items', pending_items)
          /\ running_item' = running_item
          /\ completed_items' = completed_items]_vars

\* C34: the raw pending list and the display pending list have the same
\* length and hold, at each index, records of the same uid.
C34_ListsAligned ==
    /\ Len(pending_raw_items) = Len(pending_items)
    /\ \A i \in 1..Len(pending_raw_items) :
           get_uid(pending_raw_items[i]) = get_uid(pending_items[i])

\* A move has been accepted and the local reorder has changed the order of
\* both lists.
C34_Witness ==
    /\ last.op = "move" /\ last.how = "ok"
    /\ Len(pending_raw_items) >= 2
    /\ pending_raw_items # last.pre_raw
    /\ pending_items # last.pre_items

\* The uids of the records of a list, in its order.
UidsIn(items) == [i \in 1..Len(items) |-> get_uid(items[i])]

\* The newest record of the history first.
NewestFirst(items) == [i \in 1..Len(items) |-> items[Len(items) + 1 - i]]

\* The widget holds and shows the queue the remote has settled on: the
\* pending records in the remote's order and with its values, its running
\* record, and its history, newest first.
ShowsRemote ==
    /\ pending_raw_items = call.snapshot.pending
    /\ pending_items =
           [i \in 1..Len(call.snapshot.pending) |->
               prepare_display_item(call.snapshot.pending[i], FALSE)]
    /\ IF IsNone(call.snapshot.running) THEN get_uid(running_item) = ""
       ELSE running_item = call.snapshot.running
    /\ completed_items =
           [i \in 1..Len(call.snapshot.completed) |->
               prepare_display_item(NewestFirst(call.snapshot.completed)[i], TRUE)]
    /\ [i \in 1..Len(table) |-> table[i].uid] =
           (IF IsNone(call.snapshot.running) THEN <<>>
            ELSE <<get_uid(call.snapshot.running)>>)
           \o UidsIn(call.snapshot.pending)
           \o UidsIn(NewestFirst(call.snapshot.completed))

\* C35: when the remote queue has stopped changing, the controller is
\* polling and its polls keep succeeding, and from some point on no cell
\* editor is open and no user command is issued, the widget comes to hold
\* and show the remote's queue and keeps it.
C35_SettlesOnRemote == (<>polling /\ <>[](~editor.open)) => <>[]ShowsRemote

\* The widget shows the remote's queue after the user has changed the local
\* lists with an edit that the remote has accepted.
C35_Witness ==
    /\ call.fn = "remote"
    /\ ShowsRemote
    /\ n_edits > 0
    /\ last.op = "snapshot"
    /\ last.pre_raw # pending_raw_items

\* The rows of the table, as a rebuild lays them out.
TableRows == [i \in 1..Len(table) |-> <<table[i].uid, table[i].state>>]

\* C36: a step that leaves the cell editor open rebuilds nothing: the rows
\* and the columns of the table stay and a requested rebuild stays
\* requested; and when the editor is closed from some point on, every
\* requested rebuild is eventually performed.
C36_RebuildDeferredWhileEditing ==
    /\ [][(editor.open /\ editor'.open) =>
              /\ TableRows' = TableRows
              /\ columns' = columns
              /\ pending_table_refresh => pending_table_refresh']_vars
    /\ <>[](~editor.open) => [](pending_table_refresh => <>(~pending_table_refresh))

\* A snapshot with another queue than the one shown has been applied while
\* the editor was open: the rebuild is requested and the table still shows
\* the old rows.
C36_Witness ==
    /\ editor.open
    /\ pending_table_refresh
    /\ timers > 0
    /\ last.op = "snapshot"
    /\ [i \in 1..Len(table) |-> table[i].uid] #
           (IF get_uid(running_item) = "" THEN <<>> ELSE <<get_uid(running_item)>>)
           \o UidsIn(pending_items) \o UidsIn(completed_items)

\* C37: the status cell of a row shows a defined text: the exit_status of
\* the result of its record when the record has a result, otherwise the
\* status of the record, otherwise "Running" for the running row and
\* "Pending" for any other row.
C37_StatusTextDefined ==
    (call.fn = "status" /\ call.done) =>
        /\ call.out # UnboundLocal
        /\ call.out = IF ~IsNone(Get(call.shown, "result"))
                      THEN StrOf(Get(Get(call.shown, "result"), "exit_status"))
                      ELSE IF ~IsNone(Get(call.shown, "status"))
                      THEN StrOf(Get(call.shown, "status"))
                      ELSE IF call.state = "running" THEN "Running"
                      ELSE "Pending"

\* The uids of the rows of `rows` that are selected and in PENDING state.
SelectedPending(rows, selection) ==
    {rows[r + 1].uid : r \in {x \in selection : rows[x + 1].state = "pending"}}

\* C38: the uids a delete request carries are uids of selected rows in
\* PENDING state, and when no selected row is in PENDING state no remove
\* command is sent.
C38_DeleteSendsSelectedPending ==
    (call.fn = "delete" /\ call.asked) =>
        /\ SeqToSet(call.uids) \subseteq SelectedPending(call.rows, call.selection)
        /\ SelectedPending(call.rows, call.selection) = {} =>
               \A i \in 1..Len(requests) : requests[i].cmd # "delete"

\* A call that writes cells has returned.
Written == call.fn = "writes" /\ call.done

\* C39: the cell writes of a rebuild, poll-driven or not, and of a cell
\* restore do not take _handle_item_changed past its first test: no update
\* is sent and the pending records are those the caller has stored.  In a
\* user's edit the handler runs for the edited cell and for no cell that the
\* handler itself restores.
C39_ProgrammaticWritesSkipEditPath ==
    Written =>
        /\ call.after.signals.suppress_item_changed = FALSE
        /\ call.after.signals.blocked = FALSE
        /\ IF call.op = "edit"
           THEN call.after.signals.item_changed =
                    <<<<call.cell_row, WriteColumn(call.before)>>>>
           ELSE /\ call.after.signals.item_changed = <<>>
                /\ ~call.sent
                /\ call.op \in {"rebuild", "restore"} =>
                       /\ call.after.pending_raw_items = call.before.pending_raw_items
                       /\ call.after.pending_items = call.before.pending_items
                /\ call.op = "poll" =>
                       call.after.pending_raw_items = <<RecordOf("B"), RecordOf("A")>>

\* A snapshot has been applied and the rebuild has written other cells.
C39_Witness ==
    /\ Written
    /\ call.op = "poll"
    /\ call.after.table # call.before.table
    /\ Len(call.after.views) > 0

====
